---- MODULE Spec2Model ----
(***************************************************************************)
(* AegisAI ACP provider: the two-phase job lifecycle (negotiation caches   *)
(* the job kind and requirement, delivery reads them back) and the         *)
(* validate -> gather evidence -> synthesize pipeline behind a deliverable.*)
(*                                                                         *)
(* The repository holds two provider scripts.  src/unnamed/part_000 is the *)
(* Base-only provider (pre_trade_risk_pack, execution_quote_and_route,     *)
(* market_intelligence_feed; it fetches two HTTP resources) and            *)
(* src/unnamed/part_001 is the older provider (risk_sentinel,              *)
(* gas_execution_optimizer, strategy_safety_audit, market_intelligence_feed,*)
(* portfolio_rebalancer; no fetches).  A process runs one of them; the     *)
(* variable provider says which.                                           *)
(*                                                                         *)
(* JavaScript values are tagged records, strings are sequences of          *)
(* one-character strings so that trim, toLowerCase, comma stripping and    *)
(* number parsing are computed character by character.  Numbers are        *)
(* integers: the inputs drawn below hold no decimal point, exponent or hex *)
(* prefix.  Timestamps (nowIso) and the static prose of a deliverable      *)
(* (methodology, open questions, scenario text) are left out of the        *)
(* deliverable records.                                                    *)
(***************************************************************************)
EXTENDS Integers, Sequences, FiniteSets, TLC

VARIABLES provider, jobCache, heap, tasks, probe

vars == <<provider, jobCache, heap, tasks, probe>>

(***************************************************************************)
(* JavaScript values                                                       *)
(***************************************************************************)
Undef == [t |-> "undefined"]

Null == [t |-> "null"]

NaN == [t |-> "NaN"]

Str(cs) == [t |-> "string", s |-> cs]

Num(k) == [t |-> "number", n |-> k]

Bool(b) == [t |-> "boolean", b |-> b]

Arr(xs) == [t |-> "array", a |-> xs]

Obj(m) == [t |-> "object", o |-> m]

\* A reference to a requirement object held in heap.
Ref(i) == [t |-> "ref", r |-> i]

\* The empty mapping {}.
EmptyMap == <<>>

\* obj.f, undefined when the property is absent.
Get(m, f) == IF f \in DOMAIN m THEN m[f] ELSE Undef

\* obj.f = v
Put(m, f, v) == [g \in (DOMAIN m) \cup {f} |-> IF g = f THEN v ELSE m[g]]

\* ToBoolean
Truthy(v) ==
  CASE v.t \in {"undefined", "null", "NaN"} -> FALSE
    [] v.t = "string" -> v.s # <<>>
    [] v.t = "number" -> v.n # 0
    [] v.t = "boolean" -> v.b
    [] OTHER -> TRUE

\* a || b
OrElse(a, b) == IF Truthy(a) THEN a ELSE b

\* v == null (undefined or null)
IsNullish(v) == v.t \in {"undefined", "null"}

\* a ?? b
Coalesce(a, b) == IF IsNullish(a) THEN b ELSE a

\* typeof v === "object" (null included, as in JavaScript)
TypeofObject(v) == v.t \in {"object", "array", "ref", "null"}

(***************************************************************************)
(* Strings, character by character                                         *)
(***************************************************************************)
UpperChars == <<"A","B","C","D","E","F","G","H","I","J","K","L","M",
                "N","O","P","Q","R","S","T","U","V","W","X","Y","Z">>

LowerChars == <<"a","b","c","d","e","f","g","h","i","j","k","l","m",
                "n","o","p","q","r","s","t","u","v","w","x","y","z">>

DigitChars == <<"0","1","2","3","4","5","6","7","8","9">>

LowerChar(c) ==
  IF \E i \in 1..26 : UpperChars[i] = c
    THEN LowerChars[CHOOSE i \in 1..26 : UpperChars[i] = c]
    ELSE c

UpperChar(c) ==
  IF \E i \in 1..26 : LowerChars[i] = c
    THEN UpperChars[CHOOSE i \in 1..26 : LowerChars[i] = c]
    ELSE c

toLowerCase(cs) == [i \in 1..Len(cs) |-> LowerChar(cs[i])]

toUpperCase(cs) == [i \in 1..Len(cs) |-> UpperChar(cs[i])]

IsWhite(c) == c \in {" ", "\t", "\n"}

RECURSIVE TrimStart(_)
TrimStart(cs) ==
  IF cs # <<>> /\ IsWhite(Head(cs)) THEN TrimStart(Tail(cs)) ELSE cs

RECURSIVE TrimEnd(_)
TrimEnd(cs) ==
  IF cs # <<>> /\ IsWhite(cs[Len(cs)])
    THEN TrimEnd(SubSeq(cs, 1, Len(cs) - 1))
    ELSE cs

trim(cs) == TrimEnd(TrimStart(cs))

\* No separator removed.
KeepCommas(cs) == cs

\* v.replace(/,/g, "")
StripCommas(cs) == SelectSeq(cs, LAMBDA c : c # ",")

\* The TLA+ string spelled by a character sequence.
RECURSIVE Join(_)
Join(cs) == IF cs = <<>> THEN "" ELSE Head(cs) \o Join(Tail(cs))

IsDigit(c) == \E i \in 1..10 : DigitChars[i] = c

DigitVal(c) == (CHOOSE i \in 1..10 : DigitChars[i] = c) - 1

RECURSIVE DigitsVal(_)
DigitsVal(cs) ==
  IF cs = <<>> THEN 0
  ELSE 10 * DigitsVal(SubSeq(cs, 1, Len(cs) - 1)) + DigitVal(cs[Len(cs)])

AllDigits(cs) == cs # <<>> /\ \A i \in 1..Len(cs) : IsDigit(cs[i])

\* Number(cs) for a string: surrounding whitespace is ignored, the empty
\* string is 0, an optionally signed digit string is its value, anything
\* else is NaN.
StringToNumber(cs) ==
  LET c == trim(cs) IN
    IF c = <<>> THEN Num(0)
    ELSE IF AllDigits(c) THEN Num(DigitsVal(c))
    ELSE IF Head(c) = "-" /\ AllDigits(Tail(c)) THEN Num(0 - DigitsVal(Tail(c)))
    ELSE IF Head(c) = "+" /\ AllDigits(Tail(c)) THEN Num(DigitsVal(Tail(c)))
    ELSE NaN

RECURSIVE NatToChars(_)
NatToChars(k) ==
  IF k < 10 THEN <<DigitChars[k + 1]>>
  ELSE NatToChars(k \div 10) \o <<DigitChars[(k % 10) + 1]>>

\* The characters of a string literal: a constant of the source, or one of
\* the strings the inputs below are written with.
Chars(str) ==
  CASE str = "" ->
         <<>>
    [] str = "unknown" ->
         <<"u","n","k","n","o","w","n">>
    [] str = "normal" ->
         <<"n","o","r","m","a","l">>
    [] str = "info" ->
         <<"i","n","f","o">>
    [] str = "base" ->
         <<"b","a","s","e">>
    [] str = "base-sepolia" ->
         <<"b","a","s","e","-","s","e","p","o","l","i","a">>
    [] str = "undefined" ->
         <<"u","n","d","e","f","i","n","e","d">>
    [] str = "null" ->
         <<"n","u","l","l">>
    [] str = "NaN" ->
         <<"N","a","N">>
    [] str = "true" ->
         <<"t","r","u","e">>
    [] str = "false" ->
         <<"f","a","l","s","e">>
    [] str = "[object Object]" ->
         <<"[","o","b","j","e","c","t"," ","O","b","j","e","c","t","]">>
    [] str = "x" ->
         <<"x">>
    [] str = "USDC" ->
         <<"U","S","D","C">>
    [] str = "WETH" ->
         <<"W","E","T","H">>
    [] str = "DAI" ->
         <<"D","A","I">>
    [] str = "buy" ->
         <<"b","u","y">>
    [] str = "SELL" ->
         <<"S","E","L","L">>
    [] str = "hold" ->
         <<"h","o","l","d">>
    [] str = "10,000" ->
         <<"1","0",",","0","0","0">>
    [] str = "50,000" ->
         <<"5","0",",","0","0","0">>
    [] str = "200,000" ->
         <<"2","0","0",",","0","0","0">>
    [] str = "50000" ->
         <<"5","0","0","0","0">>
    [] str = "60" ->
         <<"6","0">>
    [] str = "abc" ->
         <<"a","b","c">>
    [] str = "Base" ->
         <<"B","a","s","e">>
    [] str = "high" ->
         <<"h","i","g","h">>
    [] str = "HIGH" ->
         <<"H","I","G","H">>
    [] str = "aerodrome" ->
         <<"a","e","r","o","d","r","o","m","e">>
    [] str = "Aerodrome" ->
         <<"A","e","r","o","d","r","o","m","e">>
    [] str = "uniswap_v3" ->
         <<"u","n","i","s","w","a","p","_","v","3">>
    [] str = "uniswap_v2" ->
         <<"u","n","i","s","w","a","p","_","v","2">>
    [] str = "curve" ->
         <<"c","u","r","v","e">>
    [] str = " WETH " ->
         <<" ","W","E","T","H"," ">>
    [] str = "check my trade" ->
         <<"c","h","e","c","k"," ","m","y"," ","t","r","a","d","e">>
    [] str = "pre_trade_risk_pack" ->
         <<"p","r","e","_","t","r","a","d","e","_","r","i","s","k","_","p","a","c","k">>
    [] str = "execution_quote_and_route" ->
         <<"e","x","e","c","u","t","i","o","n","_","q","u","o","t","e","_","a","n","d","_","r","o","u","t","e">>
    [] str = "market_intelligence_feed" ->
         <<"m","a","r","k","e","t","_","i","n","t","e","l","l","i","g","e","n","c","e","_","f","e","e","d">>
    [] str = "risk_sentinel" ->
         <<"r","i","s","k","_","s","e","n","t","i","n","e","l">>
    [] str = "gas_execution_optimizer" ->
         <<"g","a","s","_","e","x","e","c","u","t","i","o","n","_","o","p","t","i","m","i","z","e","r">>
    [] str = "strategy_safety_audit" ->
         <<"s","t","r","a","t","e","g","y","_","s","a","f","e","t","y","_","a","u","d","i","t">>
    [] str = "portfolio_rebalancer" ->
         <<"p","o","r","t","f","o","l","i","o","_","r","e","b","a","l","a","n","c","e","r">>
    [] str = "USDC/WETH" ->
         <<"U","S","D","C","/","W","E","T","H">>
    [] str = "swap" ->
         <<"s","w","a","p">>
    [] str = "aggressive" ->
         <<"a","g","g","r","e","s","s","i","v","e">>
    [] str = "balanced" ->
         <<"b","a","l","a","n","c","e","d">>
    [] str = "carry" ->
         <<"c","a","r","r","y">>
    [] str = "levered carry on Base" ->
         <<"l","e","v","e","r","e","d"," ","c","a","r","r","y"," ","o","n"," ","B","a","s","e">>
    [] str = "0xpool" ->
         <<"0","x","p","o","o","l">>
    [] str = "ethereum-mainnet" ->
         <<"e","t","h","e","r","e","u","m","-","m","a","i","n","n","e","t">>

RECURSIVE JoinComma(_)
\* String(v)
String(v) ==
  CASE v.t = "string" -> v.s
    [] v.t = "number" ->
         IF v.n < 0 THEN <<"-">> \o NatToChars(0 - v.n) ELSE NatToChars(v.n)
    [] v.t = "NaN" -> Chars("NaN")
    [] v.t = "undefined" -> Chars("undefined")
    [] v.t = "null" -> Chars("null")
    [] v.t = "boolean" -> IF v.b THEN Chars("true") ELSE Chars("false")
    [] v.t = "array" -> JoinComma(v.a)
    [] OTHER -> Chars("[object Object]")

\* Array.prototype.join(","): null and undefined elements print as "".
JoinComma(xs) ==
  IF xs = <<>> THEN <<>>
  ELSE LET h == IF IsNullish(Head(xs)) THEN <<>> ELSE String(Head(xs)) IN
    IF Len(xs) = 1 THEN h ELSE h \o <<",">> \o JoinComma(Tail(xs))

\* String(v) throws a TypeError ("Cannot convert object to primitive value"):
\* v is an object with an own property toString, which in a value parsed
\* from JSON is never callable, so that ToPrimitive finds neither a usable
\* toString nor a valueOf returning a primitive; or v is an array that holds
\* such a value, since Array.prototype.toString joins its elements.
RECURSIVE ToStringThrows(_)
ToStringThrows(v) ==
  CASE v.t = "object" -> "toString" \in DOMAIN v.o
    [] v.t = "array" ->
         \E i \in 1..Len(v.a) : ~IsNullish(v.a[i]) /\ ToStringThrows(v.a[i])
    [] OTHER -> FALSE

(***************************************************************************)
(* part_000: utility helpers                                               *)
(***************************************************************************)
AGENT_VERSION == "1.0.0"

\* process.env.ACP_CHAIN || "base", lower-cased; the default is modelled.
ACP_CHAIN == "base"

SUPPORTED_CHAINS == <<"base", "base-sepolia">>

\* xs.join(", ") for a sequence of TLA+ strings.
RECURSIVE JoinList(_)
JoinList(xs) ==
  IF xs = <<>> THEN ""
  ELSE IF Len(xs) = 1 THEN Head(xs)
  ELSE Head(xs) \o ", " \o JoinList(Tail(xs))

Range(xs) == {xs[i] : i \in 1..Len(xs)}

isObj(v) == Truthy(v) /\ TypeofObject(v) /\ v.t # "array"

isNonEmptyString(v) == v.t = "string" /\ Len(trim(v.s)) > 0

\* allowed.includes(v) for a string v and a list of string constants.
oneOf(cs, allowed) == Join(cs) \in Range(allowed)

pushErr(errors, field, message) == Append(errors, field \o ": " \o message)

isFinite(v) == v.t = "number"

\* A conversion that parses strings only: a number it wrote back is not
\* accepted the next time.
toNumberOfStrings(v) ==
  IF v.t = "string" THEN
    LET cleaned == StripCommas(trim(v.s)) IN
      IF cleaned = <<>> THEN NaN ELSE StringToNumber(cleaned)
  ELSE NaN

toNumber(v) ==
  IF v.t = "number" THEN v
  ELSE IF v.t = "string" THEN
    LET cleaned == StripCommas(trim(v.s)) IN
      IF cleaned = <<>> THEN NaN ELSE StringToNumber(cleaned)
  ELSE NaN

\* Math.trunc is the identity on the integers modelled.
toInt(v) == toNumber(v)

Min(a, b) == IF a < b THEN a ELSE b

Max(a, b) == IF a > b THEN a ELSE b

clamp(n, a, b) == Max(a, Min(b, n))

\* Math.round(p / q) for q > 0: halves round towards +infinity.
RoundDiv(p, q) == (2 * p + q) \div (2 * q)

(***************************************************************************)
(* part_000: resource fetches.  An HTTP outcome h is what the environment  *)
(* answers: the request throws, or a response arrives with its ok flag,    *)
(* status and JSON body (json = <<>> stands for a null body, data = <<>>   *)
(* for a body without data, message = "" for a body without message).      *)
(***************************************************************************)
GAS_SOURCE == "resources/base-gas-profile"

DEPTH_SOURCE == "resources/base-venue-depth"

safeFetchJson(h) ==
  IF h.threw
    THEN [ok |-> FALSE, status |-> 0, json |-> <<>>, error |-> h.message]
    ELSE [ok |-> h.ok, status |-> h.status, json |-> h.json, error |-> ""]

\* r.json?.ok
JsonOk(r) == r.json # <<>> /\ r.json[1].ok

\* r.error || r.json?.message || "unavailable"
FetchError(r) ==
  IF r.error # "" THEN r.error
  ELSE IF r.json # <<>> /\ r.json[1].message # "" THEN r.json[1].message
  ELSE "unavailable"

\* A fetch that trusts the HTTP status alone and never reads the body's ok.
FetchResultTrustsStatus(source, r) ==
  IF ~r.ok
    THEN [ok |-> FALSE,
          evidence |-> <<[source |-> source, error |-> FetchError(r)]>>,
          data |-> <<>>]
    ELSE [ok |-> TRUE,
          evidence |-> <<[source |-> source, freshness_seconds |-> 60]>>,
          data |-> IF r.json = <<>> THEN <<>> ELSE r.json[1].data]

FetchResult(source, r) ==
  IF ~r.ok \/ ~JsonOk(r)
    THEN [ok |-> FALSE,
          evidence |-> <<[source |-> source, error |-> FetchError(r)]>>,
          data |-> <<>>]
    ELSE [ok |-> TRUE,
          evidence |-> <<[source |-> source, freshness_seconds |-> 60]>>,
          data |-> r.json[1].data]

fetchBaseGasProfile(h) == FetchResult(GAS_SOURCE, safeFetchJson(h))

fetchBaseVenueDepth(h) == FetchResult(DEPTH_SOURCE, safeFetchJson(h))

\* A derivation that counts only the entries of fetches that succeeded.
confidenceFromFreshEvidence(evidence) ==
  LET src == {evidence[i].source :
                i \in {j \in 1..Len(evidence) : "error" \notin DOMAIN evidence[j]}}
      hasGas == GAS_SOURCE \in src
      hasDepth == DEPTH_SOURCE \in src
  IN IF hasGas /\ hasDepth THEN "high"
     ELSE IF hasGas \/ hasDepth THEN "medium"
     ELSE "low"

confidenceFromEvidence(evidence) ==
  LET src == {evidence[i].source : i \in 1..Len(evidence)}
      hasGas == GAS_SOURCE \in src
      hasDepth == DEPTH_SOURCE \in src
  IN IF hasGas /\ hasDepth THEN "high"
     ELSE IF hasGas \/ hasDepth THEN "medium"
     ELSE "low"

(***************************************************************************)
(* part_000: validations.  A validator returns the ValidationResult        *)
(* (ok, errors) and req, the requirement as its in-place normalisation     *)
(* leaves it.                                                              *)
(***************************************************************************)
\* A step of a validator: the requirement and the errors so far.
VStep(req, errors) == [req |-> req, errors |-> errors, raised |-> FALSE]

\* The statement reached threw: the validator is left with the requirement
\* as normalised so far, and returns nothing.
VRaised(st) == [req |-> st.req, errors |-> st.errors, raised |-> TRUE]

\* A result that tolerates one error.
VResultTolerant(st) ==
  [ok |-> Len(st.errors) <= 1, errors |-> st.errors, req |-> st.req,
   raised |-> st.raised]

VResult(st) ==
  [ok |-> Len(st.errors) = 0, errors |-> st.errors, req |-> st.req,
   raised |-> st.raised]

\* A check that is skipped once an error has been recorded.
ErrIfFirstOnly(cond, errors, field, message) ==
  IF cond /\ errors = <<>> THEN pushErr(errors, field, message) ELSE errors

\* if (cond) pushErr(errors, field, message)
ErrIf(cond, errors, field, message) ==
  IF cond THEN pushErr(errors, field, message) ELSE errors

validateBaseChain(req, errors) ==
  IF ~isNonEmptyString(Get(req, "chain"))
    THEN VStep(req, pushErr(errors, "chain", "must be a non-empty string"))
    ELSE LET c == toLowerCase(String(Get(req, "chain"))) IN
      VStep(Put(req, "chain", Str(c)),
            ErrIf(~oneOf(c, SUPPORTED_CHAINS), errors, "chain",
                  "must be one of: " \o JoinList(SUPPORTED_CHAINS)))

\* !Number.isFinite(n) || n < lo || n > hi
OutOfRange(v, lo, hi) == ~isFinite(v) \/ v.n < lo \/ v.n > hi

\* The statements the validators share, each taking the requirement and
\* the errors so far to the requirement and the errors after it; a
\* statement after one that threw is not reached.

\* if (!isNonEmptyString(req[field])) pushErr(errors, field, message)
RequireString(st, field, message) ==
  IF st.raised THEN st ELSE
  VStep(st.req, ErrIf(~isNonEmptyString(Get(st.req, field)), st.errors,
                      field, message))

\* An enumerated field lower-cased but not checked against its allowed set.
NormaliseEnumUnchecked(st, field, default, allowed, message) ==
  IF st.raised THEN st ELSE
  VStep(Put(st.req, field,
            Str(toLowerCase(String(OrElse(Get(st.req, field), Str(Chars(default))))))),
        st.errors)

\* const x = String(req[field] || default).toLowerCase();
\* if (!allowed.includes(x)) pushErr(...); req[field] = x
NormaliseEnum(st, field, default, allowed, message) ==
  IF st.raised THEN st
  ELSE IF ToStringThrows(OrElse(Get(st.req, field), Str(Chars(default))))
    THEN VRaised(st) ELSE
  LET x == toLowerCase(String(OrElse(Get(st.req, field), Str(Chars(default)))))
  IN VStep(Put(st.req, field, Str(x)),
           ErrIf(~oneOf(x, allowed), st.errors, field, message))

\* const n = toNumber(req[from]); if (!Number.isFinite(n) || n <= 0)
\* pushErr(...); req[field] = n
NormalisePositive(st, from, field, message) ==
  IF st.raised THEN st ELSE
  LET n == toNumber(Get(st.req, from))
  IN VStep(Put(st.req, field, n),
           ErrIf(~isFinite(n) \/ n.n <= 0, st.errors, field, message))

\* const n = toInt(req[field]); if (!Number.isFinite(n) || n < lo || n > hi)
\* pushErr(...); req[field] = n
NormaliseIntInRange(st, field, lo, hi, message) ==
  IF st.raised THEN st ELSE
  LET n == toInt(Get(st.req, field))
  IN VStep(Put(st.req, field, n),
           ErrIf(OutOfRange(n, lo, hi), st.errors, field, message))

\* const lev = toNumber(req.leverage ?? 1); if (!Number.isFinite(lev) ||
\* lev < 1) pushErr(...); req.leverage = lev
NormaliseLeverage(st) ==
  IF st.raised THEN st ELSE
  LET lev == toNumber(Coalesce(Get(st.req, "leverage"), Num(1)))
  IN VStep(Put(st.req, "leverage", lev),
           ErrIf(~isFinite(lev) \/ lev.n < 1, st.errors,
                 "leverage", "must be >= 1 (1 for spot)"))

\* time_horizon_minutes, checked and replaced only when given.
NormaliseHorizon(st) ==
  IF IsNullish(Get(st.req, "time_horizon_minutes")) THEN st
  ELSE NormaliseIntInRange(st, "time_horizon_minutes", 1, 10080,
                           "must be integer 1..10080 (optional)")

PRE_TRADE_VENUES == <<"aerodrome", "uniswap_v3", "uniswap_v2", "unknown">>

\* validateBaseChain(req, errors) as a statement of a validator.
CheckBaseChain(st) ==
  IF st.raised THEN st ELSE validateBaseChain(st.req, st.errors)

\* The statements in order, the first innermost.
validatePreTradeRiskPack(req0) ==
  VResult(
    NormaliseHorizon(
    NormaliseLeverage(
    NormaliseEnum(
      NormaliseIntInRange(
      NormaliseEnum(
        NormalisePositive(
        NormaliseEnum(
          RequireString(
          RequireString(
          CheckBaseChain(
          RequireString(VStep(req0, <<>>),
            "client_agent_id", "must be a non-empty string")),
            "asset_in", "must be token symbol or address"),
            "asset_out", "must be token symbol or address"),
          "side", "", <<"buy", "sell">>, "must be 'buy' or 'sell'"),
          "notional_value_usd", "notional_value_usd",
          "must be a positive number (numeric string allowed)"),
        "execution_venue", "unknown", PRE_TRADE_VENUES,
        "must be one of: " \o JoinList(PRE_TRADE_VENUES)),
        "max_slippage_bps", 1, 2000,
        "must be integer 1..2000 (e.g., 50 = 0.50%)"),
      "urgency", "normal", <<"low", "normal", "high">>,
      "must be low/normal/high"))))

QUOTE_VENUES == <<"aerodrome", "uniswap_v3", "uniswap_v2">>

\* req.allowed_venues.map((v) => String(v).toLowerCase())
LowerAll(xs) == [i \in 1..Len(xs) |-> Str(toLowerCase(String(xs[i])))]

\* The TLA+ strings of a list of string values.
Strings(xs) == [i \in 1..Len(xs) |-> Join(xs[i].s)]

validateAllowedVenues(req, errors) ==
  LET av == Get(req, "allowed_venues") IN
    IF ~IsNullish(av) THEN
      IF av.t # "array" \/ Len(av.a) = 0
        THEN VStep(req, pushErr(errors, "allowed_venues",
                                "must be a non-empty array if provided"))
      ELSE IF ToStringThrows(av) THEN VRaised(VStep(req, errors))
        ELSE LET lower == LowerAll(av.a)
                 bad == SelectSeq(Strings(lower),
                                  LAMBDA v : v \notin Range(QUOTE_VENUES))
             IN VStep(Put(req, "allowed_venues", Arr(lower)),
                      ErrIf(Len(bad) > 0, errors, "allowed_venues",
                            "unsupported: " \o JoinList(bad)))
    ELSE VStep(Put(req, "allowed_venues",
                   Arr(<<Str(<<"u","n","i","s","w","a","p","_","v","3">>),
                         Str(<<"a","e","r","o","d","r","o","m","e">>)>>)),
               errors)

\* req.prefer_stable_routes = Boolean(req.prefer_stable_routes)
NormaliseStableRoutes(st) ==
  IF st.raised THEN st ELSE
  VStep(Put(st.req, "prefer_stable_routes",
            Bool(Truthy(Get(st.req, "prefer_stable_routes")))),
        st.errors)

\* const deadline = req.deadline_seconds == null ? 180 : toInt(...)
NormaliseDeadline(st) ==
  IF st.raised THEN st ELSE
  LET deadline == IF IsNullish(Get(st.req, "deadline_seconds")) THEN Num(180)
                  ELSE toInt(Get(st.req, "deadline_seconds"))
  IN VStep(Put(st.req, "deadline_seconds", deadline),
           ErrIf(OutOfRange(deadline, 60, 3600), st.errors, "deadline_seconds",
                 "must be integer 60..3600 (default 180)"))

CheckAllowedVenues(st) ==
  IF st.raised THEN st ELSE validateAllowedVenues(st.req, st.errors)

validateExecutionQuoteAndRoute(req0) ==
  VResult(
    NormaliseDeadline(
    NormaliseStableRoutes(
    CheckAllowedVenues(
    NormaliseIntInRange(
      NormalisePositive(
        RequireString(
        RequireString(
        CheckBaseChain(
        RequireString(VStep(req0, <<>>),
          "client_agent_id", "must be a non-empty string")),
          "asset_in", "must be token symbol or address"),
          "asset_out", "must be token symbol or address"),
        "notional_value_usd", "notional_value_usd",
        "must be a positive number (numeric string allowed)"),
      "max_slippage_bps", 1, 2000, "must be integer 1..2000")))))

SEVERITIES == <<"info", "low", "medium", "high", "critical">>

\* req.focus_assets.map((x) => String(x).trim()).filter(Boolean)
TrimAll(xs) ==
  SelectSeq([i \in 1..Len(xs) |-> Str(trim(String(xs[i])))],
            LAMBDA v : Truthy(v))

validateFocusAssets(req, errors) ==
  LET fa == Get(req, "focus_assets") IN
    IF ~IsNullish(fa) THEN
      IF fa.t # "array"
        THEN VStep(req, pushErr(errors, "focus_assets",
                                "must be array(string) if provided"))
      ELSE IF \E i \in 1..Len(fa.a) : ToStringThrows(fa.a[i])
        THEN VRaised(VStep(req, errors))
        ELSE VStep(Put(req, "focus_assets", Arr(TrimAll(fa.a))), errors)
    ELSE VStep(Put(req, "focus_assets", Arr(<<>>)), errors)

\* minimum_notional_usd, or min_notional_usd when the former is missing.
NormaliseMinNotional(st) ==
  NormalisePositive(st,
    IF ~IsNullish(Get(st.req, "minimum_notional_usd"))
      THEN "minimum_notional_usd" ELSE "min_notional_usd",
    "minimum_notional_usd",
    "must be a positive number (numeric string allowed)")

CheckFocusAssets(st) ==
  IF st.raised THEN st ELSE validateFocusAssets(st.req, st.errors)

validateMarketIntel(req0) ==
  VResult(
    NormaliseEnum(
      CheckFocusAssets(
      NormaliseMinNotional(
      NormaliseIntInRange(
        CheckBaseChain(
        RequireString(VStep(req0, <<>>),
          "client_agent_id", "must be a non-empty string")),
        "lookback_minutes", 5, 43200, "must be integer 5..43200"))),
      "severity_floor", "info", SEVERITIES,
      "must be one of: " \o JoinList(SEVERITIES)))

(***************************************************************************)
(* part_000: deliverable builders.  A builder is given the evidence its    *)
(* fetches pushed and the data they returned (<<>> for null).  Gas data is *)
(* [congestion_level, volatility_pct] (variance_hint.volatility_ratio in   *)
(* percent, "" and 0 when absent); depth data is [venues, best_by_depth],  *)
(* best_by_depth = <<>> for null, a venue being                            *)
(* [venue, depth_usd, estimated_slippage_bps], venue a character sequence. *)
(***************************************************************************)
\* An invalid deliverable that keeps a score.
invalidDeliverableScored(jobName, validation) ==
  [job_name |-> jobName,
   agent_version |-> AGENT_VERSION,
   chain |-> ACP_CHAIN,
   validation_passed |-> FALSE,
   validation_errors |-> validation.errors,
   decision |-> "REJECT",
   risk_score |-> 50,
   recommended_size_factor_x100 |-> 0,
   confidence_level |-> "low",
   key_risks |-> <<"Input validation failed; no analysis performed.">>,
   evidence |-> <<>>,
   assumptions |-> <<"No analysis performed due to invalid input.">>]

invalidDeliverable(jobName, validation) ==
  [job_name |-> jobName,
   agent_version |-> AGENT_VERSION,
   chain |-> ACP_CHAIN,
   validation_passed |-> FALSE,
   validation_errors |-> validation.errors,
   decision |-> "REJECT",
   risk_score |-> 0,
   recommended_size_factor_x100 |-> 0,
   confidence_level |-> "low",
   key_risks |-> <<"Input validation failed; no analysis performed.">>,
   evidence |-> <<>>,
   assumptions |-> <<"No analysis performed due to invalid input.">>]

\* depthR.data?.venues || []
VenuesOf(depthData) == IF depthData = <<>> THEN <<>> ELSE depthData[1].venues

\* depthR.data?.best_by_depth || null
BestOf(depthData) == IF depthData = <<>> THEN <<>> ELSE depthData[1].best_by_depth

\* gas.congestion_level || "unknown"
CongestionOf(gasData) ==
  IF gasData = <<>> \/ gasData[1].congestion_level = "" THEN "unknown"
  ELSE gasData[1].congestion_level

\* clamp(Math.round((notional / 50000) * 80), 15, 180)
FallbackSlippage(notional) == clamp(RoundDiv(notional * 80, 50000), 15, 180)

\* best?.estimated_slippage_bps ?? fallback
EstSlipBps(best, notional) ==
  IF best # <<>> THEN best[1].estimated_slippage_bps ELSE FallbackSlippage(notional)

\* A size score that wraps around above its ceiling instead of staying there.
PreTradeSizeScoreWrapping(notional) == RoundDiv(notional * 25, 100000) % 36

PreTradeSizeScore(notional) == clamp(RoundDiv(notional * 25, 100000), 0, 35)

PreTradeSlipScore(estSlipBps) == clamp(RoundDiv(estSlipBps * 40, 100), 5, 45)

PreTradeGasScore(congestion) ==
  IF congestion = "high" THEN 18 ELSE IF congestion = "elevated" THEN 10 ELSE 6

PreTradeLevScore(leverage) ==
  IF leverage > 1 THEN clamp((leverage - 1) * 20, 0, 30) ELSE 0

\* The sum of the four sub-scores, not clamped.
PreTradeRiskScoreUnclamped(notional, estSlipBps, congestion, leverage) ==
  PreTradeSizeScore(notional) + PreTradeSlipScore(estSlipBps)
    + PreTradeGasScore(congestion) + PreTradeLevScore(leverage)

PreTradeRiskScore(notional, estSlipBps, congestion, leverage) ==
  clamp(PreTradeSizeScore(notional) + PreTradeSlipScore(estSlipBps)
          + PreTradeGasScore(congestion) + PreTradeLevScore(leverage), 0, 100)

\* The two rules in the other order: the reduce rule last.
PreTradeDecisionReduceLast(estSlipBps, maxSlip, riskScore) ==
  IF estSlipBps > maxSlip
    THEN [decision |-> "SIZE_DOWN",
          size_factor_x100 |-> clamp(RoundDiv(maxSlip * 100, estSlipBps), 20, 80)]
  ELSE IF riskScore >= 80 THEN [decision |-> "REJECT", size_factor_x100 |-> 0]
  ELSE [decision |-> "APPROVE", size_factor_x100 |-> 100]

\* A reduction by the bare ratio cap/estimate, not clamped to [0.2, 0.8].
PreTradeDecisionBareRatio(estSlipBps, maxSlip, riskScore) ==
  IF riskScore >= 80 THEN [decision |-> "REJECT", size_factor_x100 |-> 0]
  ELSE IF estSlipBps > maxSlip
    THEN [decision |-> "SIZE_DOWN",
          size_factor_x100 |-> RoundDiv(maxSlip * 100, estSlipBps)]
  ELSE [decision |-> "APPROVE", size_factor_x100 |-> 100]

\* The decision and the size factor, Number(sizeFactor.toFixed(2)) in
\* hundredths.
PreTradeDecision(estSlipBps, maxSlip, riskScore) ==
  LET reduce == estSlipBps > maxSlip
      d1 == IF reduce THEN "SIZE_DOWN" ELSE "APPROVE"
      f1 == IF reduce THEN clamp(RoundDiv(maxSlip * 100, estSlipBps), 20, 80)
            ELSE 100
  IN IF riskScore >= 80 THEN [decision |-> "REJECT", size_factor_x100 |-> 0]
     ELSE [decision |-> d1, size_factor_x100 |-> f1]

\* A recommendation that follows the estimate and ignores the caller's cap.
RecommendedMaxSlipUncapped(maxSlip, estSlipBps) ==
  Max(20, RoundDiv(estSlipBps * 85, 100))

\* Math.min(cap, Math.max(20, Math.round(est * 0.85)))
RecommendedMaxSlip(maxSlip, estSlipBps) ==
  Min(maxSlip, Max(20, RoundDiv(estSlipBps * 85, 100)))

\* clamp(Math.round(est * 0.7), 5, 250)
PriceImpact(estSlipBps) == clamp(RoundDiv(estSlipBps * 7, 10), 5, 250)

\* v.venue of a venue record; the resource spells it as characters.
VenueName(v) == Join(v.venue)

\* best?.venue
BestVenueName(best) == IF best = <<>> THEN "" ELSE VenueName(best[1])

\* names.filter(v => v && v !== except)
NamesExcept(names, except) ==
  SelectSeq(names, LAMBDA v : v # "" /\ v # except)

VenueNames(venues) == [i \in 1..Len(venues) |-> VenueName(venues[i])]

PreTradeKeyRisks(estSlipBps, congestion, leverage, best) ==
  (IF estSlipBps >= 60
     THEN <<"Slippage increases materially at this size; split execution recommended.">>
     ELSE <<>>)
  \o (IF congestion \in {"elevated", "high"}
        THEN <<"Gas regime elevated; prefer batching or waiting for calmer blocks.">>
        ELSE <<>>)
  \o (IF leverage > 1
        THEN <<"Leverage amplifies liquidation and execution sensitivity.">>
        ELSE <<>>)
  \o (IF best = <<>>
        THEN <<"Venue depth data unavailable; results rely on conservative fallback.">>
        ELSE <<>>)

buildPreTradeRiskPackDeliverable(req, validation, evidence, gasData, depthData) ==
  IF ~validation.ok THEN invalidDeliverable("pre_trade_risk_pack", validation)
  ELSE
    LET venues == VenuesOf(depthData)
        best == BestOf(depthData)
        notional == Get(req, "notional_value_usd").n
        maxSlip == Get(req, "max_slippage_bps").n
        leverage == Get(req, "leverage").n
        estSlipBps == EstSlipBps(best, notional)
        congestion == CongestionOf(gasData)
        riskScore == PreTradeRiskScore(notional, estSlipBps, congestion, leverage)
        dec == PreTradeDecision(estSlipBps, maxSlip, riskScore)
        fallbackVenues == NamesExcept(VenueNames(venues), BestVenueName(best))
        reqVenue == Join(String(Get(req, "execution_venue")))
    IN [job_name |-> "pre_trade_risk_pack",
        agent_version |-> AGENT_VERSION,
        chain |-> Join(String(Get(req, "chain"))),
        validation_passed |-> TRUE,
        validation_errors |-> <<>>,
        decision |-> dec.decision,
        risk_score |-> riskScore,
        recommended_size_factor_x100 |-> dec.size_factor_x100,
        confidence_level |-> confidenceFromEvidence(evidence),
        key_risks |-> PreTradeKeyRisks(estSlipBps, congestion, leverage, best),
        execution_plan |->
          [recommended_venue |->
             IF BestVenueName(best) # "" THEN BestVenueName(best)
             ELSE IF reqVenue # "" THEN reqVenue ELSE "unknown",
           fallback_venues |->
             IF Len(fallbackVenues) > 0 THEN fallbackVenues
             ELSE NamesExcept(<<"uniswap_v3", "aerodrome">>, BestVenueName(best)),
           recommended_split_count |->
             IF notional > 75000 THEN 3 ELSE IF notional > 30000 THEN 2 ELSE 1,
           recommended_max_slippage_bps |-> RecommendedMaxSlip(maxSlip, estSlipBps),
           deadline_seconds |-> 180],
        liquidity_analysis |->
          [notional_usd |-> notional,
           best_by_depth |-> best,
           venues_considered |-> venues,
           estimated_liquidity_depth_usd |->
             IF best # <<>> THEN best[1].depth_usd ELSE 300000,
           estimated_slippage_bps_at_size |-> estSlipBps,
           price_impact_estimate_bps |-> PriceImpact(estSlipBps)],
        gas_analysis |-> [congestion_level |-> congestion],
        evidence |-> evidence,
        assumptions |->
          IF best = <<>>
            THEN <<"No venue depth returned from subgraphs. Falling back to conservative estimates.">>
            ELSE <<"No additional assumptions.">>]

\* xs.sort((a, b) => b.depth_usd - a.depth_usd): stable, deepest first.
RECURSIVE InsertByDepth(_, _)
InsertByDepth(v, sorted) ==
  IF sorted = <<>> THEN <<v>>
  ELSE IF v.depth_usd > Head(sorted).depth_usd THEN <<v>> \o sorted
  ELSE <<Head(sorted)>> \o InsertByDepth(v, Tail(sorted))

RECURSIVE SortByDepth(_)
SortByDepth(xs) ==
  IF xs = <<>> THEN <<>>
  ELSE InsertByDepth(xs[Len(xs)], SortByDepth(SubSeq(xs, 1, Len(xs) - 1)))

\* new Set((req.allowed_venues || []).map((v) => String(v).toLowerCase()))
AllowedSet(req) ==
  LET av == Get(req, "allowed_venues") IN
    IF av.t = "array" THEN Range(Strings(LowerAll(av.a))) ELSE {}

\* venues.filter(v => !allowed.size || allowed.has(lower(v.venue))).sort(...)
RankedVenues(venues, allowed) ==
  SortByDepth(SelectSeq(venues,
    LAMBDA v : allowed = {} \/ Join(toLowerCase(v.venue)) \in allowed))

\* ranked[0] || best || null
ChosenVenue(ranked, best) == IF ranked # <<>> THEN <<ranked[1]>> ELSE best

buildExecutionQuoteAndRouteDeliverable(req, validation, evidence, depthData) ==
  IF ~validation.ok THEN invalidDeliverable("execution_quote_and_route", validation)
  ELSE
    LET venues == VenuesOf(depthData)
        best == BestOf(depthData)
        ranked == RankedVenues(venues, AllowedSet(req))
        chosen == ChosenVenue(ranked, best)
        fallback == NamesExcept(VenueNames(SubSeq(ranked, 2, Min(4, Len(ranked)))), "")
        notional == Get(req, "notional_value_usd").n
        maxSlip == Get(req, "max_slippage_bps").n
        estSlip == EstSlipBps(chosen, notional)
    IN [job_name |-> "execution_quote_and_route",
        agent_version |-> AGENT_VERSION,
        chain |-> Join(String(Get(req, "chain"))),
        validation_passed |-> TRUE,
        validation_errors |-> <<>>,
        best_venue |-> IF BestVenueName(chosen) # "" THEN BestVenueName(chosen)
                       ELSE "unknown",
        fallback_venues |->
          IF Len(fallback) > 0 THEN fallback
          ELSE NamesExcept(<<"aerodrome", "uniswap_v3">>, BestVenueName(chosen)),
        estimated_slippage_bps |-> estSlip,
        estimated_price_impact_bps |-> PriceImpact(estSlip),
        recommended_max_slippage_bps |-> RecommendedMaxSlip(maxSlip, estSlip),
        recommended_split_count |->
          IF notional > 60000 THEN 3 ELSE IF notional > 25000 THEN 2 ELSE 1,
        safety_parameters |-> [deadline_seconds |-> Get(req, "deadline_seconds").n],
        warnings |->
          (IF chosen = <<>>
             THEN <<"No venue depth returned; using fallback estimates.">>
             ELSE <<>>)
          \o (IF estSlip > maxSlip
                THEN <<"Estimated slippage may exceed cap; reduce size or split.">>
                ELSE <<>>),
        evidence |-> evidence]

\* gas.variance_hint?.volatility_ratio ?? 0, in percent
VolatilityOf(gasData) == IF gasData = <<>> THEN 0 ELSE gasData[1].volatility_pct

buildMarketIntelDeliverable(req, validation, evidence, gasData) ==
  IF ~validation.ok THEN invalidDeliverable("market_intelligence_feed", validation)
  ELSE
    LET congestion == CongestionOf(gasData)
        volatility == VolatilityOf(gasData)
        alerts == IF volatility > 25
                    THEN <<[id |-> "gas_variance",
                            severity |-> IF volatility > 50 THEN "high" ELSE "medium"]>>
                    ELSE <<>>
        focus == Get(req, "focus_assets")
    IN [job_name |-> "market_intelligence_feed",
        agent_version |-> AGENT_VERSION,
        chain |-> Join(String(Get(req, "chain"))),
        validation_passed |-> TRUE,
        validation_errors |-> <<>>,
        regime |-> [gas_regime |-> congestion, liquidity_regime |-> "venue-specific"],
        alerts |-> alerts,
        stats |-> [lookback_minutes |-> Get(req, "lookback_minutes").n,
                   minimum_notional_usd |-> Get(req, "minimum_notional_usd").n,
                   alerts_count |-> Len(alerts),
                   data_freshness_seconds |-> 60],
        watchlist_summary |->
          IF focus.t = "array" THEN Range(Strings(focus.a)) ELSE {},
        evidence |-> evidence]

(***************************************************************************)
(* part_000: job dispatcher.  buildDeliverableForJob validates at once,    *)
(* then the builder awaits its fetches one after the other.                *)
(***************************************************************************)
JOBS_V2 == {"pre_trade_risk_pack", "execution_quote_and_route",
            "market_intelligence_feed"}

UNSUPPORTED_MESSAGE_V2 ==
  "Unsupported job. Use: pre_trade_risk_pack, execution_quote_and_route, market_intelligence_feed"

\* The validator the switch runs for a job name it knows.
validateForJob(jobName, req) ==
  CASE jobName = "pre_trade_risk_pack" -> validatePreTradeRiskPack(req)
    [] jobName = "execution_quote_and_route" -> validateExecutionQuoteAndRoute(req)
    [] jobName = "market_intelligence_feed" -> validateMarketIntel(req)

\* The fetches a builder awaits, in order, once validation passed.
FetchPlan(jobName) ==
  CASE jobName = "pre_trade_risk_pack" -> <<"gas", "depth">>
    [] jobName = "execution_quote_and_route" -> <<"depth">>
    [] jobName = "market_intelligence_feed" -> <<"gas">>
    [] OTHER -> <<>>

\* A default branch that does not flag its deliverable as an error.
unsupportedDeliverableUnflagged(jobName) ==
  [job_name |-> IF jobName # "" THEN jobName ELSE "unknown",
   agent_version |-> AGENT_VERSION,
   chain |-> ACP_CHAIN,
   validation_passed |-> FALSE,
   validation_errors |-> <<"Unknown or unsupported job_name.">>,
   error |-> FALSE,
   message |-> UNSUPPORTED_MESSAGE_V2]

unsupportedDeliverable(jobName) ==
  [job_name |-> IF jobName # "" THEN jobName ELSE "unknown",
   agent_version |-> AGENT_VERSION,
   chain |-> ACP_CHAIN,
   validation_passed |-> FALSE,
   validation_errors |-> <<"Unknown or unsupported job_name.">>,
   error |-> TRUE,
   message |-> UNSUPPORTED_MESSAGE_V2]

\* What buildDeliverableForJob resolves to, given the validation it ran and
\* what the builder's fetches returned.
buildDeliverableForJob(jobName, req, validation, evidence, gasData, depthData) ==
  CASE jobName = "pre_trade_risk_pack" ->
         buildPreTradeRiskPackDeliverable(req, validation, evidence, gasData, depthData)
    [] jobName = "execution_quote_and_route" ->
         buildExecutionQuoteAndRouteDeliverable(req, validation, evidence, depthData)
    [] jobName = "market_intelligence_feed" ->
         buildMarketIntelDeliverable(req, validation, evidence, gasData)
    [] OTHER -> unsupportedDeliverable(jobName)

(***************************************************************************)
(* part_001: the older provider.  Its validators only read the             *)
(* requirement; numbers must be native numbers.                            *)
(***************************************************************************)
isPositiveNumber(v) == v.t = "number" /\ v.n > 0

isNonNegativeNumber(v) == v.t = "number" /\ v.n >= 0

\* isNonEmptyString(v) && allowed.includes(v), the value compared as it is.
isOneOfStrings(v, allowed) == isNonEmptyString(v) /\ oneOf(v.s, allowed)

VResultV1(errors) == [ok |-> Len(errors) = 0, errors |-> errors]

SENTINEL_SIDES == <<"buy", "sell", "long", "short">>

SENTINEL_CHAINS == <<"base", "ethereum-mainnet", "arbitrum", "optimism", "polygon">>

validateRiskSentinel(req) ==
  LET e1 == ErrIf(~isNonEmptyString(Get(req, "client_agent_id")), <<>>,
                  "client_agent_id", "must be a non-empty string")
      e2 == ErrIf(~isNonEmptyString(Get(req, "asset_pair")), e1,
                  "asset_pair", "must be a non-empty string like 'USDC/WETH'")
      e3 == ErrIf(~isOneOfStrings(Get(req, "side"), SENTINEL_SIDES), e2,
                  "side", "must be one of 'buy', 'sell', 'long', 'short'")
      e4 == ErrIf(~isPositiveNumber(Get(req, "notional_value_usd")), e3,
                  "notional_value_usd", "must be a positive number in USD")
      e5 == ErrIf(~isNonEmptyString(Get(req, "execution_venue")), e4,
                  "execution_venue", "must be a non-empty string (e.g. 'uniswap_v3')")
      e6 == ErrIf(~isOneOfStrings(Get(req, "chain"), SENTINEL_CHAINS), e5,
                  "chain", "must be one of: " \o JoinList(SENTINEL_CHAINS))
      e7 == ErrIf(~isPositiveNumber(Get(req, "leverage")) \/ Get(req, "leverage").n < 1,
                  e6, "leverage", "must be >= 1 (use 1 for spot/no leverage)")
  IN VResultV1(e7)

\* Math.min(100, Math.round(20 + (leverage - 1) * 10 + Math.min(notional / 100000, 3) * 10))
SentinelRiskScore(notional, leverage) ==
  Min(100, 20 + (leverage - 1) * 10 + RoundDiv(Min(notional, 300000), 10000))

buildRiskSentinelDeliverable(req, validation) ==
  IF ~validation.ok THEN
    [job_name |-> "risk_sentinel",
     decision |-> "reject",
     risk_score |-> 0,
     recommended_size_factor_x100 |-> 0,
     validation_passed |-> FALSE,
     validation_errors |-> validation.errors,
     summary |-> [overall_risk_level |-> "invalid"]]
  ELSE
    LET riskScore == SentinelRiskScore(Get(req, "notional_value_usd").n,
                                       Get(req, "leverage").n)
        decision == IF riskScore >= 80 THEN "reject"
                    ELSE IF riskScore >= 60 THEN "reduce" ELSE "approve"
    IN [job_name |-> "risk_sentinel",
        decision |-> decision,
        risk_score |-> riskScore,
        recommended_size_factor_x100 |->
          IF riskScore >= 80 THEN 0 ELSE IF riskScore >= 60 THEN 50 ELSE 100,
        validation_passed |-> TRUE,
        validation_errors |-> <<>>,
        summary |-> [overall_risk_level |->
                       IF riskScore >= 60 THEN "high"
                       ELSE IF riskScore >= 40 THEN "medium" ELSE "low"]]

GAS_TX_TYPES == <<"swap", "liquidity_add", "rebalance", "leverage_open">>

URGENCIES == <<"low", "normal", "high">>

validateGasExecution(req) ==
  LET e1 == ErrIf(~isNonEmptyString(Get(req, "client_agent_id")), <<>>,
                  "client_agent_id", "must be a non-empty string")
      e2 == ErrIf(~isNonEmptyString(Get(req, "chain")), e1,
                  "chain", "must be a non-empty string")
      e3 == ErrIf(~isOneOfStrings(Get(req, "transaction_type"), GAS_TX_TYPES), e2,
                  "transaction_type", "must be one of " \o JoinList(GAS_TX_TYPES))
      e4 == ErrIf(~isOneOfStrings(Get(req, "urgency"), URGENCIES), e3,
                  "urgency", "must be one of " \o JoinList(URGENCIES))
      e5 == ErrIf(~isPositiveNumber(Get(req, "expected_notional_usd")), e4,
                  "expected_notional_usd", "must be a positive number")
      e6 == ErrIf(~isNonNegativeNumber(Get(req, "current_gas_price_wei")), e5,
                  "current_gas_price_wei",
                  "must be a non-negative number (0 allowed for unknown)")
  IN VResultV1(e6)

\* Number(20n * 10n ** 9n) wei.  Gas prices are counted in gwei, a
\* requirement's current_gas_price_wei being a whole number of gwei.
DEFAULT_GAS_GWEI == 20

buildGasExecutionDeliverable(req, validation) ==
  IF ~validation.ok THEN
    [job_name |-> "gas_execution_optimizer",
     validation_passed |-> FALSE,
     validation_errors |-> validation.errors,
     recommended_gas_price_gwei_x10 |-> <<>>,
     suggested_priority |-> <<>>,
     summary |-> [overall_status |-> "invalid"]]
  ELSE
    LET given == Get(req, "current_gas_price_wei")
        baseGas == IF isPositiveNumber(given) THEN given.n ELSE DEFAULT_GAS_GWEI
        urgency == Join(Get(req, "urgency").s)
        \* Math.round(baseGas * multiplier), multiplier 0.9, 1.2 or 1.0, in
        \* tenths of a gwei
        recommended == IF urgency = "high" THEN baseGas * 12
                       ELSE IF urgency = "low" THEN baseGas * 9
                       ELSE baseGas * 10
    IN [job_name |-> "gas_execution_optimizer",
        validation_passed |-> TRUE,
        validation_errors |-> <<>>,
        recommended_gas_price_gwei_x10 |-> <<recommended>>,
        suggested_priority |-> <<urgency>>,
        summary |-> [overall_status |-> "ok"]]

\* req.contracts_involved.forEach: one error per element that is no
\* non-empty string, labelled with its index.
RECURSIVE ContractErrors(_, _, _)
ContractErrors(xs, idx, errors) ==
  IF idx >= Len(xs) THEN errors
  ELSE ContractErrors(xs, idx + 1,
         ErrIf(~isNonEmptyString(xs[idx + 1]), errors,
               "contracts_involved[" \o Join(NatToChars(idx)) \o "]",
               "must be a non-empty string"))

validateStrategyAudit(req) ==
  LET e1 == ErrIf(~isNonEmptyString(Get(req, "client_agent_id")), <<>>,
                  "client_agent_id", "must be a non-empty string")
      e2 == ErrIf(~isNonEmptyString(Get(req, "strategy_name")), e1,
                  "strategy_name", "must be a non-empty string")
      e3 == ErrIf(~isNonEmptyString(Get(req, "chain")), e2,
                  "chain", "must be a non-empty string")
      e4 == ErrIf(~isNonEmptyString(Get(req, "strategy_description")), e3,
                  "strategy_description",
                  "must be a non-empty description of the strategy")
      ci == Get(req, "contracts_involved")
      e5 == IF ci.t # "array" \/ Len(ci.a) = 0
              THEN pushErr(e4, "contracts_involved",
                     "must be a non-empty array of contract addresses or identifiers")
              ELSE ContractErrors(ci.a, 0, e4)
      e6 == ErrIf(~isPositiveNumber(Get(req, "max_leverage"))
                    \/ Get(req, "max_leverage").n < 1,
                  e5, "max_leverage", "must be >= 1")
      e7 == ErrIf(~isNonNegativeNumber(Get(req, "target_yield_apy")), e6,
                  "target_yield_apy", "must be a non-negative number (percent APY)")
  IN VResultV1(e7)

StrategyRiskScore(maxLeverage, targetYield, contracts) ==
  LET s1 == IF maxLeverage > 2 \/ targetYield > 20 THEN 40 ELSE 20
      s2 == IF maxLeverage > 3 \/ targetYield > 40 THEN s1 + 30 ELSE s1
  IN Min(100, s2 + Min(contracts * 5, 20))

buildStrategyAuditDeliverable(req, validation) ==
  IF ~validation.ok THEN
    [job_name |-> "strategy_safety_audit",
     validation_passed |-> FALSE,
     validation_errors |-> validation.errors,
     risk_rating |-> "invalid",
     checklist |-> <<>>,
     summary |-> [overall_risk_level |-> "invalid"]]
  ELSE
    LET lev == Get(req, "max_leverage").n
        apy == Get(req, "target_yield_apy").n
        n == Len(Get(req, "contracts_involved").a)
        risk == IF lev > 3 \/ apy > 40 THEN "high"
                ELSE IF lev > 2 \/ apy > 20 THEN "medium" ELSE "low"
    IN [job_name |-> "strategy_safety_audit",
        validation_passed |-> TRUE,
        validation_errors |-> <<>>,
        risk_rating |-> risk,
        checklist |-> <<"Confirm protocol audit status for all contracts_involved.",
                        "Test liquidation behavior under extreme volatility.",
                        "Verify oracle sources and price feeds.",
                        "Simulate gas and slippage under peak network load.">>,
        summary |-> [overall_risk_level |-> risk,
                     risk_score |-> StrategyRiskScore(lev, apy, n)]]

\* req.focus_assets.forEach: one error per element that is no non-empty
\* string.
RECURSIVE FocusErrors(_, _, _)
FocusErrors(xs, idx, errors) ==
  IF idx >= Len(xs) THEN errors
  ELSE FocusErrors(xs, idx + 1,
         ErrIf(~isNonEmptyString(xs[idx + 1]), errors,
               "focus_assets[" \o Join(NatToChars(idx)) \o "]",
               "must be a non-empty string"))

validateMarketIntelV1(req) ==
  LET e1 == ErrIf(~isNonEmptyString(Get(req, "client_agent_id")), <<>>,
                  "client_agent_id", "must be a non-empty string")
      e2 == ErrIf(~isNonEmptyString(Get(req, "chain")), e1,
                  "chain", "must be a non-empty string")
      e3 == ErrIf(~isPositiveNumber(Get(req, "lookback_minutes")), e2,
                  "lookback_minutes", "must be a positive number")
      e4 == ErrIf(~isPositiveNumber(Get(req, "minimum_notional_usd")), e3,
                  "minimum_notional_usd", "must be a positive number")
      fa == Get(req, "focus_assets")
      e5 == IF IsNullish(fa) THEN e4
            ELSE IF fa.t # "array"
              THEN pushErr(e4, "focus_assets", "must be an array of strings if provided")
              ELSE FocusErrors(fa.a, 0, e4)
  IN VResultV1(e5)

buildMarketIntelDeliverableV1(req, validation) ==
  LET fa == Get(req, "focus_assets")
      focusCount == IF fa.t = "array" THEN Len(fa.a) ELSE 0
  IN IF ~validation.ok THEN
       [job_name |-> "market_intelligence_feed",
        validation_passed |-> FALSE,
        validation_errors |-> validation.errors,
        signals |-> <<>>,
        stats |-> [events_considered |-> 0, focus_assets_count |-> focusCount],
        summary |-> [overall_status |-> "invalid"]]
     ELSE
       [job_name |-> "market_intelligence_feed",
        validation_passed |-> TRUE,
        validation_errors |-> <<>>,
        signals |-> <<[id |-> "sample_flow_1", severity |-> "info",
                       notional_usd |-> Get(req, "minimum_notional_usd").n * 3]>>,
        stats |-> [events_considered |-> 42,
                   focus_assets_count |-> IF focusCount > 0 THEN focusCount ELSE 1],
        summary |-> [overall_status |-> "ok"]]

\* req.current_positions.forEach: the errors of each position, labelled
\* with its index.
RECURSIVE PositionErrors(_, _, _)
PositionErrors(xs, idx, errors) ==
  IF idx >= Len(xs) THEN errors
  ELSE
    LET pos == xs[idx + 1]
        label == "current_positions[" \o Join(NatToChars(idx)) \o "]"
    IN IF ~Truthy(pos) \/ ~TypeofObject(pos)
         THEN PositionErrors(xs, idx + 1, pushErr(errors, label, "must be an object"))
         ELSE
           LET m == IF pos.t = "object" THEN pos.o ELSE EmptyMap
               a1 == ErrIf(~isNonEmptyString(Get(m, "asset")), errors,
                           label \o ".asset", "must be a non-empty string")
               a2 == ErrIf(~isPositiveNumber(Get(m, "amount")), a1,
                           label \o ".amount", "must be a positive number")
               a3 == ErrIf(~isPositiveNumber(Get(m, "notional_usd")), a2,
                           label \o ".notional_usd", "must be a positive number")
           IN PositionErrors(xs, idx + 1, a3)

RISK_TOLERANCES == <<"conservative", "moderate", "aggressive">>

OBJECTIVES == <<"maximize_yield", "preserve_capital", "balanced">>

validatePortfolioRebalancer(req) ==
  LET e1 == ErrIf(~isNonEmptyString(Get(req, "client_agent_id")), <<>>,
                  "client_agent_id", "must be a non-empty string")
      e2 == ErrIf(~isNonEmptyString(Get(req, "chain")), e1,
                  "chain", "must be a non-empty string")
      cp == Get(req, "current_positions")
      e3 == IF cp.t # "array" \/ Len(cp.a) = 0
              THEN pushErr(e2, "current_positions",
                     "must be a non-empty array of { asset, amount, notional_usd } objects")
              ELSE PositionErrors(cp.a, 0, e2)
      e4 == ErrIf(~isOneOfStrings(Get(req, "risk_tolerance"), RISK_TOLERANCES), e3,
                  "risk_tolerance", "must be one of " \o JoinList(RISK_TOLERANCES))
      e5 == ErrIf(~isOneOfStrings(Get(req, "target_objective"), OBJECTIVES), e4,
                  "target_objective", "must be one of " \o JoinList(OBJECTIVES))
  IN VResultV1(e5)

STABLE_SYMBOLS == {"USDC", "USDT", "DAI"}

RECURSIVE SumNotional(_)
SumNotional(xs) ==
  IF xs = <<>> THEN 0 ELSE Get(Head(xs).o, "notional_usd").n + SumNotional(Tail(xs))

buildPortfolioRebalancerDeliverable(req, validation) ==
  IF ~validation.ok THEN
    [job_name |-> "portfolio_rebalancer",
     validation_passed |-> FALSE,
     validation_errors |-> validation.errors,
     recommended_trades |-> <<>>,
     risk_summary |-> [total_notional_usd |-> 0],
     summary |-> [overall_status |-> "invalid"]]
  ELSE
    LET positions == Get(req, "current_positions").a
        total == SumNotional(positions)
        stableValue == SumNotional(SelectSeq(positions,
          LAMBDA q : Join(toUpperCase(Get(q.o, "asset").s)) \in STABLE_SYMBOLS))
        \* aggressive and stableValue / total > 0.4
        rotate == Join(Get(req, "risk_tolerance").s) = "aggressive" /\ total > 0
                  /\ stableValue * 10 > total * 4
    IN [job_name |-> "portfolio_rebalancer",
        validation_passed |-> TRUE,
        validation_errors |-> <<>>,
        recommended_trades |->
          IF rotate
            THEN <<[action |-> "rotate_out_of_stables",
                    suggested_notional_to_rotate_usd |-> RoundDiv(stableValue * 3, 10)]>>
            ELSE <<>>,
        risk_summary |-> [total_notional_usd |-> total],
        summary |-> [overall_status |-> "ok"]]

(***************************************************************************)
(* part_001: job dispatcher (synchronous: no fetch)                        *)
(***************************************************************************)
JOBS_V1 == {"risk_sentinel", "gas_execution_optimizer", "strategy_safety_audit",
            "market_intelligence_feed", "portfolio_rebalancer"}

UNSUPPORTED_MESSAGE_V1 ==
  "The provider could not match this job to a known offering. Please ensure you're using one of the supported jobs for this agent."

unsupportedDeliverableV1(jobName) ==
  [job_name |-> IF jobName # "" THEN jobName ELSE "unknown",
   validation_passed |-> FALSE,
   validation_errors |-> <<"Unknown or unsupported job_name.">>,
   error |-> TRUE,
   message |-> UNSUPPORTED_MESSAGE_V1,
   summary |-> [overall_status |-> "unsupported_job"]]

\* The validator the switch of part_001 runs for a job name it knows.
validateForJobV1(jobName, req) ==
  CASE jobName = "risk_sentinel" -> validateRiskSentinel(req)
    [] jobName = "gas_execution_optimizer" -> validateGasExecution(req)
    [] jobName = "strategy_safety_audit" -> validateStrategyAudit(req)
    [] jobName = "market_intelligence_feed" -> validateMarketIntelV1(req)
    [] jobName = "portfolio_rebalancer" -> validatePortfolioRebalancer(req)

\* The builder that switch hands the validation to.
BuiltFromV1(jobName, req, validation) ==
  CASE jobName = "risk_sentinel" -> buildRiskSentinelDeliverable(req, validation)
    [] jobName = "gas_execution_optimizer" -> buildGasExecutionDeliverable(req, validation)
    [] jobName = "strategy_safety_audit" -> buildStrategyAuditDeliverable(req, validation)
    [] jobName = "market_intelligence_feed" -> buildMarketIntelDeliverableV1(req, validation)
    [] jobName = "portfolio_rebalancer" ->
         buildPortfolioRebalancerDeliverable(req, validation)

buildDeliverableForJobV1(jobName, req) ==
  CASE jobName = "risk_sentinel" ->
         buildRiskSentinelDeliverable(req, validateRiskSentinel(req))
    [] jobName = "gas_execution_optimizer" ->
         buildGasExecutionDeliverable(req, validateGasExecution(req))
    [] jobName = "strategy_safety_audit" ->
         buildStrategyAuditDeliverable(req, validateStrategyAudit(req))
    [] jobName = "market_intelligence_feed" ->
         buildMarketIntelDeliverableV1(req, validateMarketIntelV1(req))
    [] jobName = "portfolio_rebalancer" ->
         buildPortfolioRebalancerDeliverable(req, validatePortfolioRebalancer(req))
    [] OTHER -> unsupportedDeliverableV1(jobName)

(***************************************************************************)
(* Phase dispatcher: onNewTask of both providers.                          *)
(*                                                                         *)
(* jobCache is the Map from job id to {jobName, requirement}.  A cached    *)
(* requirement that is an object is a reference into heap, so that the     *)
(* in-place normalisation of part_000's validators is seen by every holder *)
(* of the object.  tasks records every notification handled, in order:     *)
(* what it was given, where its handler stands (pc), its locals, the       *)
(* properties the requirement had when a negotiation cached it (stored)    *)
(* and the calls it made on the transport (responds: job.respond,          *)
(* delivers: job.deliver).                                                 *)
(*                                                                         *)
(* A handler runs without interruption up to an awaited fetch.  The code   *)
(* after `await job.respond` and `await job.deliver` only logs, and the    *)
(* promise hops between a builder's return and job.deliver run in one      *)
(* microtask drain, so each is folded into the step that makes the call.   *)
(***************************************************************************)
PROVIDERS == {"part_000", "part_001"}

JobIds == {"job-a", "job-b"}

\* The number of notifications the transport sends in a run.
MaxNotifs == 3

RATIONALE_V2 == "Accepted by AegisAI - deep analysis will be produced at delivery."

RATIONALE_V1 ==
  "Accepted by AegisAI provider - validation and risk logic will be applied at delivery."

\* A requirement mapping written field by field.
Fields(pairs) ==
  [f \in {pairs[i][1] : i \in 1..Len(pairs)} |->
     pairs[CHOOSE i \in 1..Len(pairs) : pairs[i][1] = f][2]]

S(str) == Str(Chars(str))

ReqScenario ==
  Fields(<< <<"client_agent_id", S("x")>>, <<"chain", S("base")>>,
            <<"asset_in", S("USDC")>>, <<"asset_out", S("WETH")>>,
            <<"side", S("buy")>>, <<"notional_value_usd", S("10,000")>>,
            <<"max_slippage_bps", Num(50)>>, <<"execution_venue", S("unknown")>> >>)

ReqMalformed ==
  Fields(<< <<"chain", S("base")>>,
            <<"asset_in", S("USDC")>>, <<"asset_out", S("WETH")>>,
            <<"side", S("hold")>>, <<"notional_value_usd", S("10,000")>>,
            <<"max_slippage_bps", Num(50)>> >>)

\* The scenario with a side that String() cannot convert.
ReqUnprintable ==
  Put(ReqScenario, "side", Obj(Fields(<< <<"toString", Null>> >>)))

ReqQuote ==
  Fields(<< <<"client_agent_id", S("x")>>, <<"chain", S("Base")>>,
            <<"asset_in", S("USDC")>>, <<"asset_out", S("WETH")>>,
            <<"notional_value_usd", S("50,000")>>, <<"max_slippage_bps", Num(30)>>,
            <<"allowed_venues", Arr(<<S("Aerodrome")>>)>> >>)

ReqIntel ==
  Fields(<< <<"client_agent_id", S("x")>>,
            <<"lookback_minutes", S("60")>>, <<"min_notional_usd", Num(1000)>>,
            <<"focus_assets", Arr(<<S(" WETH ")>>)>>,
            <<"severity_floor", S("HIGH")>> >>)

ReqSentinel ==
  Fields(<< <<"client_agent_id", S("x")>>, <<"asset_pair", S("USDC/WETH")>>,
            <<"side", S("buy")>>, <<"notional_value_usd", Num(250000)>>,
            <<"execution_venue", S("uniswap_v3")>>, <<"chain", S("base")>>,
            <<"leverage", Num(3)>> >>)

ReqGasBad == Fields(<< <<"client_agent_id", S("x")>>, <<"urgency", S("HIGH")>> >>)

ReqStrategy ==
  Fields(<< <<"client_agent_id", S("x")>>, <<"strategy_name", S("carry")>>,
            <<"chain", S("base")>>,
            <<"strategy_description", S("levered carry on Base")>>,
            <<"contracts_involved", Arr(<<S("0xpool")>>)>>,
            <<"max_leverage", Num(3)>>, <<"target_yield_apy", Num(25)>> >>)

\* { name, requirement }
Named(name, requirement) ==
  Obj(Fields(<< <<"name", S(name)>>, <<"requirement", requirement>> >>))

\* What a notification carries: the memo (absent, or its status, target
\* phase and structured content) and job.input.
Notification(present, status, nextPhase, structuredContent, input) ==
  [memoPresent |-> present, status |-> status, nextPhase |-> nextPhase,
   structuredContent |-> structuredContent, input |-> input]

Negotiation(structuredContent, input) ==
  Notification(TRUE, "PENDING", 1, structuredContent, input)

DeliveryNotification == Notification(TRUE, "PENDING", 3, Undef, Undef)

IdleNotifications ==
  {Notification(FALSE, "", 0, Undef, Undef),
   Notification(TRUE, "APPROVED", 1, Undef, Undef),
   Notification(TRUE, "PENDING", 2, Undef, Undef)}

NegotiationsV2 ==
  {Negotiation(Named("pre_trade_risk_pack", Obj(ReqScenario)), Undef),
   Negotiation(Named("pre_trade_risk_pack", Obj(ReqMalformed)), Undef),
   Negotiation(Arr(<<>>), Named("execution_quote_and_route", Obj(ReqQuote))),
   Negotiation(Undef, Obj(ReqIntel)),
   Negotiation(Named("pre_trade_risk_pack", S("check my trade")), Undef),
   Negotiation(Named("market_intelligence_feed", Obj(ReqIntel)), Undef),
   Negotiation(Named("execution_quote_and_route", Undef), Undef),
   Negotiation(Named("market_intelligence_feed", Obj(ReqMalformed)), Undef),
   Negotiation(Named("pre_trade_risk_pack", Obj(ReqUnprintable)), Undef),
   Negotiation(Named("risk_sentinel", Obj(ReqSentinel)), Undef)}

NegotiationsV1 ==
  {Negotiation(Named("risk_sentinel", Obj(ReqSentinel)), Undef),
   Negotiation(Named("gas_execution_optimizer", Obj(ReqGasBad)), Undef),
   Negotiation(Undef, Named("strategy_safety_audit", Obj(ReqStrategy))),
   Negotiation(Arr(<<>>), Named("risk_sentinel", Obj(ReqSentinel))),
   Negotiation(Named("risk_sentinel", S("check my trade")), Undef),
   Negotiation(Undef, Undef),
   Negotiation(Named("strategy_safety_audit", Undef), Undef),
   Negotiation(Named("market_intelligence_feed", Obj(ReqGasBad)), Undef),
   Negotiation(Named("portfolio_rebalancer", Obj(ReqGasBad)), Undef),
   Negotiation(Named("pre_trade_risk_pack", Obj(ReqSentinel)), Undef)}

Notifications(p) ==
  IdleNotifications \cup {DeliveryNotification}
    \cup (IF p = "part_000" THEN NegotiationsV2 ELSE NegotiationsV1)

\* The HTTP outcomes of the resource server.
HttpThrew == [threw |-> TRUE, message |-> "fetch failed", ok |-> FALSE,
              status |-> 0, json |-> <<>>]

HttpError(status, message) ==
  [threw |-> FALSE, message |-> "", ok |-> FALSE, status |-> status,
   json |-> <<[ok |-> FALSE, message |-> message, data |-> <<>>]>>]

HttpOk(data) ==
  [threw |-> FALSE, message |-> "", ok |-> TRUE, status |-> 200,
   json |-> <<[ok |-> TRUE, message |-> "", data |-> <<data>>]>>]

GasOutcomes ==
  {HttpThrew,
   HttpError(500, "Failed to compute base gas profile."),
   HttpOk([congestion_level |-> "normal", volatility_pct |-> 0]),
   HttpOk([congestion_level |-> "high", volatility_pct |-> 60])}

Venue(name, depth, slip) ==
  [venue |-> Chars(name), depth_usd |-> depth, estimated_slippage_bps |-> slip]

DepthOutcomes ==
  {HttpThrew,
   HttpError(400, "notional_usd must be > 0"),
   HttpOk([venues |-> <<>>, best_by_depth |-> <<>>]),
   HttpOk([venues |-> <<Venue("uniswap_v3", 900000, 120),
                        Venue("aerodrome", 400000, 12)>>,
           best_by_depth |-> <<Venue("uniswap_v3", 900000, 120)>>])}

\* The named properties of a value.  An array or a primitive has none of
\* the names the handlers read.
PropsOf(v) == IF v.t = "object" THEN v.o ELSE EmptyMap

\* The named properties of a requirement as the handler holds it: the
\* object behind a reference, or the value's own.
ReqProps(v, h) == IF v.t = "ref" THEN h[v.r] ELSE PropsOf(v)

\* x.name || jobName.  The job names of NegotiationsV2 and NegotiationsV1
\* are strings, kept as such.
NameOr(v, default) == IF Truthy(v) THEN Join(String(v)) ELSE default

Task(job, notification) ==
  [job |-> job, notification |-> notification, pc |-> "done",
   jobName |-> "", requirement |-> Undef, stored |-> <<>>, validation |-> <<>>,
   gasR |-> <<>>, depthR |-> <<>>, responds |-> <<>>, delivers |-> <<>>]

\* The transport has a notification left to send.
Arrives == Len(tasks) < MaxNotifs

IsPending(n) == n.memoPresent /\ n.status = "PENDING"

\* A lookup that ignores the key: any entry answers.
CacheGetAny(job) ==
  IF DOMAIN jobCache # {}
    THEN <<jobCache[CHOOSE j \in DOMAIN jobCache : TRUE]>> ELSE <<>>

\* jobCache.get(job.id) || {}
\* A lookup that falls back to another job's entry when the job has none.
CacheGetOrBorrow(job) ==
  IF DOMAIN jobCache = {} THEN <<>>
  ELSE <<jobCache[CHOOSE j \in DOMAIN jobCache : j = job \/ job \notin DOMAIN jobCache]>>

CacheGet(job) == IF job \in DOMAIN jobCache THEN <<jobCache[job]>> ELSE <<>>

\* cached.jobName || "unknown"
CachedJobName(cached) ==
  IF cached # <<>> /\ cached[1].jobName # "" THEN cached[1].jobName ELSE "unknown"

\* cached.requirement || {}
CachedRequirement(cached) ==
  IF cached # <<>> /\ Truthy(cached[1].requirement)
    THEN cached[1].requirement ELSE Obj(EmptyMap)

\* A write that keeps the entry a job already has.
CacheSetFirstWins(job, jobName, requirement) ==
  IF job \in DOMAIN jobCache THEN jobCache
  ELSE Put(jobCache, job, [jobName |-> jobName, requirement |-> requirement])

\* A write that merges into the entry a job already has: the requirement is
\* replaced, the job kind first stored is kept.
CacheSetKeepsJobName(job, jobName, requirement) ==
  IF job \in DOMAIN jobCache
    THEN Put(jobCache, job, [jobName |-> jobCache[job].jobName,
                             requirement |-> requirement])
    ELSE Put(jobCache, job, [jobName |-> jobName, requirement |-> requirement])

\* A write that files every job under one key.
CacheSetUnderOneKey(job, jobName, requirement) ==
  Put(jobCache, "job-a", [jobName |-> jobName, requirement |-> requirement])

\* A cache of one slot: a write evicts the entries of the other jobs.
CacheSetEvicting(job, jobName, requirement) ==
  Put(<<>>, job, [jobName |-> jobName, requirement |-> requirement])

\* jobCache.set(job.id, { jobName, requirement })
CacheSet(job, jobName, requirement) ==
  Put(jobCache, job, [jobName |-> jobName, requirement |-> requirement])

(***************************************************************************)
(* part_000 onNewTask.                                                     *)
(***************************************************************************)
\* The guard's early return.
NoPendingMemo(job, n) ==
  /\ provider = "part_000" /\ Arrives
  /\ ~IsPending(n)
  /\ tasks' = Append(tasks, Task(job, n))
  /\ UNCHANGED <<provider, jobCache, heap, probe>>

\* jobName and requirement as the negotiation branch infers them.
NegotiationLocals(n) ==
  LET sc == n.structuredContent
      input == n.input
  IN IF isObj(sc)
       THEN [jobName |-> NameOr(Get(sc.o, "name"), "unknown"),
             requirement |-> OrElse(Get(sc.o, "requirement"), Obj(EmptyMap))]
     ELSE IF isObj(input)
       THEN [jobName |-> NameOr(Get(input.o, "name"), "unknown"),
             requirement |-> OrElse(Get(input.o, "requirement"), input)]
     ELSE [jobName |-> "unknown", requirement |-> Obj(EmptyMap)]

\* if (!requirement.chain) requirement.chain = ACP_CHAIN, on an object.
DefaultChain(props) ==
  IF Truthy(Get(props, "chain")) THEN props
  ELSE Put(props, "chain", Str(Chars(ACP_CHAIN)))

\* Phase 0 -> 1.  Under "use strict" the assignment of chain to a primitive
\* requirement throws a TypeError: the handler's promise rejects before the
\* cache is written and before job.respond is called.
Negotiate(job, n) ==
  /\ provider = "part_000" /\ Arrives
  /\ IsPending(n) /\ n.nextPhase = 1
  /\ LET loc == NegotiationLocals(n)
         r == loc.requirement
         t == [Task(job, n) EXCEPT !.jobName = loc.jobName]
     IN IF r.t \notin {"object", "array"}
          THEN /\ tasks' = Append(tasks, [t EXCEPT !.pc = "raised", !.requirement = r])
               /\ UNCHANGED <<jobCache, heap>>
          ELSE /\ heap' = Append(heap, DefaultChain(PropsOf(r)))
               /\ jobCache' = CacheSet(job, loc.jobName, Ref(Len(heap) + 1))
               /\ tasks' = Append(tasks,
                    [t EXCEPT !.requirement = Ref(Len(heap) + 1),
                              !.stored = <<DefaultChain(PropsOf(r))>>,
                              !.responds = <<[approve |-> TRUE,
                                              rationale |-> RATIONALE_V2]>>])
  /\ UNCHANGED <<provider, probe>>

\* A builder that awaits its fetches before it looks at the validation.
ValidatedFetchesFirst(t, val) ==
  LET tr == [t EXCEPT !.requirement = IF @.t = "ref" THEN @ ELSE Obj(val.req)]
  IN IF val.raised THEN [tr EXCEPT !.pc = "raised"]
     ELSE [tr EXCEPT !.validation = <<[ok |-> val.ok, errors |-> val.errors]>>,
                     !.pc = Head(FetchPlan(t.jobName))]

\* The delivery task once buildDeliverableForJob has validated the
\* requirement: a failed validation is delivered at once, a passed one
\* awaits the builder's first fetch.  When the validator threw, the
\* handler's promise rejects and nothing is delivered.
Validated(t, val) ==
  LET validation == [ok |-> val.ok, errors |-> val.errors]
      tr == [t EXCEPT !.requirement = IF @.t = "ref" THEN @ ELSE Obj(val.req)]
      tv == [tr EXCEPT !.validation = <<validation>>]
  IN IF val.raised THEN [tr EXCEPT !.pc = "raised"]
     ELSE IF val.ok
       THEN [tv EXCEPT !.pc = Head(FetchPlan(t.jobName))]
       ELSE [tv EXCEPT !.delivers =
               <<buildDeliverableForJob(t.jobName, val.req, validation,
                                        <<>>, <<>>, <<>>)>>]

\* A normalisation that writes through to every requirement object.
NormalisedEverywhere(requirement, val) ==
  IF requirement.t = "ref" THEN [r \in DOMAIN heap |-> val.req]
  ELSE heap

\* The objects after a validator normalised requirement in place.
Normalised(requirement, val) ==
  IF requirement.t = "ref" THEN [heap EXCEPT ![requirement.r] = val.req]
  ELSE heap

\* Phase 2 -> 3, up to the first awaited fetch.
Deliver(job, n) ==
  /\ provider = "part_000" /\ Arrives
  /\ IsPending(n) /\ n.nextPhase = 3
  /\ LET cached == CacheGet(job)
         jobName == CachedJobName(cached)
         requirement == CachedRequirement(cached)
         t == [Task(job, n) EXCEPT !.jobName = jobName, !.requirement = requirement]
     IN IF jobName \notin JOBS_V2
          THEN /\ tasks' = Append(tasks,
                    [t EXCEPT !.delivers =
                       <<buildDeliverableForJob(jobName, EmptyMap, <<>>, <<>>, <<>>, <<>>)>>])
               /\ heap' = heap
          ELSE LET val == validateForJob(jobName, ReqProps(requirement, heap))
               IN /\ heap' = Normalised(requirement, val)
                  /\ tasks' = Append(tasks, Validated(t, val))
  /\ UNCHANGED <<provider, jobCache, probe>>

\* An unhandled phase answered with an acceptance.
NotHandledAccepts(job, n) ==
  /\ provider = "part_000" /\ Arrives
  /\ IsPending(n) /\ n.nextPhase \notin {1, 3}
  /\ tasks' = Append(tasks,
       [Task(job, n) EXCEPT !.responds = <<[approve |-> TRUE,
                                            rationale |-> RATIONALE_V2]>>])
  /\ UNCHANGED <<provider, jobCache, heap, probe>>

\* A PENDING memo whose nextPhase is neither 1 nor 3: logged only.
NotHandled(job, n) ==
  /\ provider = "part_000" /\ Arrives
  /\ IsPending(n) /\ n.nextPhase \notin {1, 3}
  /\ tasks' = Append(tasks, Task(job, n))
  /\ UNCHANGED <<provider, jobCache, heap, probe>>

onNewTask(job, n) ==
  \/ NoPendingMemo(job, n)
  \/ Negotiate(job, n)
  \/ Deliver(job, n)
  \/ NotHandled(job, n)

\* The deliverable of task t once its last fetch has returned, built from
\* the requirement object as it is now.
Deliverable(t, gasR, depthR) ==
  buildDeliverableForJob(t.jobName, ReqProps(t.requirement, heap), t.validation[1],
                         gasR.evidence \o depthR.evidence, gasR.data, depthR.data)

NoFetch == [ok |-> FALSE, evidence |-> <<>>, data |-> <<>>]

\* The gas-profile fetch of task i settles with HTTP outcome h.
GasReturns(i, h) ==
  /\ tasks[i].pc = "gas"
  /\ LET gasR == fetchBaseGasProfile(h)
     IN tasks' =
          IF "depth" \in Range(FetchPlan(tasks[i].jobName))
            THEN [tasks EXCEPT ![i].gasR = <<gasR>>, ![i].pc = "depth"]
            ELSE [tasks EXCEPT ![i].gasR = <<gasR>>, ![i].pc = "done",
                               ![i].delivers = <<Deliverable(tasks[i], gasR, NoFetch)>>]
  /\ UNCHANGED <<provider, jobCache, heap, probe>>

\* A venue-depth fetch whose failure ends the handler without a delivery.
DepthReturnsOrDrops(i, h) ==
  /\ tasks[i].pc = "depth"
  /\ LET depthR == fetchBaseVenueDepth(h)
         gasR == IF tasks[i].gasR = <<>> THEN NoFetch ELSE tasks[i].gasR[1]
     IN tasks' =
          IF depthR.ok
            THEN [tasks EXCEPT ![i].depthR = <<depthR>>, ![i].pc = "done",
                               ![i].delivers = <<Deliverable(tasks[i], gasR, depthR)>>]
            ELSE [tasks EXCEPT ![i].depthR = <<depthR>>, ![i].pc = "raised"]
  /\ UNCHANGED <<provider, jobCache, heap, probe>>

\* The venue-depth fetch of task i settles with HTTP outcome h.
DepthReturns(i, h) ==
  /\ tasks[i].pc = "depth"
  /\ LET depthR == fetchBaseVenueDepth(h)
         gasR == IF tasks[i].gasR = <<>> THEN NoFetch ELSE tasks[i].gasR[1]
     IN tasks' = [tasks EXCEPT ![i].depthR = <<depthR>>, ![i].pc = "done",
                               ![i].delivers = <<Deliverable(tasks[i], gasR, depthR)>>]
  /\ UNCHANGED <<provider, jobCache, heap, probe>>

(***************************************************************************)
(* part_001 onNewTask: no chain default, no fetch; the whole handler is    *)
(* one step.                                                               *)
(***************************************************************************)
NoPendingMemoV1(job, n) ==
  /\ provider = "part_001" /\ Arrives
  /\ ~IsPending(n)
  /\ tasks' = Append(tasks, Task(job, n))
  /\ UNCHANGED <<provider, jobCache, heap, probe>>

\* x && typeof x === "object": arrays pass.
IsObjectV1(v) == Truthy(v) /\ TypeofObject(v)

NegotiationLocalsV1(n) ==
  LET sc == n.structuredContent
      input == n.input
  IN IF IsObjectV1(sc)
       THEN [jobName |-> NameOr(Get(PropsOf(sc), "name"), "unknown"),
             requirement |-> OrElse(Get(PropsOf(sc), "requirement"), Obj(EmptyMap))]
     ELSE IF IsObjectV1(input)
       THEN [jobName |-> NameOr(Get(PropsOf(input), "name"), "unknown"),
             requirement |-> OrElse(Get(PropsOf(input), "requirement"), input)]
     ELSE [jobName |-> "unknown", requirement |-> Obj(EmptyMap)]

NegotiateV1(job, n) ==
  /\ provider = "part_001" /\ Arrives
  /\ IsPending(n) /\ n.nextPhase = 1
  /\ LET loc == NegotiationLocalsV1(n)
         r == loc.requirement
         isRef == r.t \in {"object", "array"}
         held == IF isRef THEN Ref(Len(heap) + 1) ELSE r
     IN /\ heap' = IF isRef THEN Append(heap, PropsOf(r)) ELSE heap
        /\ jobCache' = CacheSet(job, loc.jobName, held)
        /\ tasks' = Append(tasks,
             [Task(job, n) EXCEPT !.jobName = loc.jobName, !.requirement = held,
                                  !.stored = <<PropsOf(r)>>,
                                  !.responds = <<[approve |-> TRUE,
                                                  rationale |-> RATIONALE_V1]>>])
  /\ UNCHANGED <<provider, probe>>

DeliverV1(job, n) ==
  /\ provider = "part_001" /\ Arrives
  /\ IsPending(n) /\ n.nextPhase = 3
  /\ LET cached == CacheGet(job)
         jobName == CachedJobName(cached)
         requirement == CachedRequirement(cached)
     IN tasks' = Append(tasks,
          [Task(job, n) EXCEPT !.jobName = jobName, !.requirement = requirement,
             !.delivers =
               <<buildDeliverableForJobV1(jobName, ReqProps(requirement, heap))>>])
  /\ UNCHANGED <<provider, jobCache, heap, probe>>

NotHandledV1(job, n) ==
  /\ provider = "part_001" /\ Arrives
  /\ IsPending(n) /\ n.nextPhase \notin {1, 3}
  /\ tasks' = Append(tasks, Task(job, n))
  /\ UNCHANGED <<provider, jobCache, heap, probe>>

onNewTaskV1(job, n) ==
  \/ NoPendingMemoV1(job, n)
  \/ NegotiateV1(job, n)
  \/ DeliverV1(job, n)
  \/ NotHandledV1(job, n)

(***************************************************************************)
(* The provider under the transport: the script that runs is chosen at     *)
(* start, the cache is empty, and the transport sends up to MaxNotifs      *)
(* notifications in any order for any job.                                 *)
(***************************************************************************)
Init ==
  /\ provider \in PROVIDERS
  /\ jobCache = <<>>
  /\ heap = <<>>
  /\ tasks = <<>>
  /\ probe = <<>>

GasSettles == \E i \in 1..Len(tasks), h \in GasOutcomes : GasReturns(i, h)

DepthSettles == \E i \in 1..Len(tasks), h \in DepthOutcomes : DepthReturns(i, h)

\* The transport calls the handler for some job with some notification:
\* onNewTask and onNewTaskV1 branch by branch; and the fetches settle.
Next ==
  \/ \E job \in JobIds, n \in Notifications(provider) : NoPendingMemo(job, n)
  \/ \E job \in JobIds, n \in Notifications(provider) : Negotiate(job, n)
  \/ \E job \in JobIds, n \in Notifications(provider) : Deliver(job, n)
  \/ \E job \in JobIds, n \in Notifications(provider) : NotHandled(job, n)
  \/ \E job \in JobIds, n \in Notifications(provider) : NoPendingMemoV1(job, n)
  \/ \E job \in JobIds, n \in Notifications(provider) : NegotiateV1(job, n)
  \/ \E job \in JobIds, n \in Notifications(provider) : DeliverV1(job, n)
  \/ \E job \in JobIds, n \in Notifications(provider) : NotHandledV1(job, n)
  \/ GasSettles
  \/ DepthSettles

Spec == Init /\ [][Next]_vars

\* A fetch that was issued settles: fetch resolves or rejects, and
\* safeFetchJson turns a rejection into a result.
FairSpec == Spec /\ WF_vars(GasSettles) /\ WF_vars(DepthSettles)

(***************************************************************************)
(* confidenceFromEvidence on its own: probe holds an evidence list and,    *)
(* once derived, its confidence level.                                     *)
(***************************************************************************)
\* The longest evidence list drawn.
MaxEvidence == 3

OTHER_SOURCE == "resources/other"

EvidenceSources == {GAS_SOURCE, DEPTH_SOURCE, OTHER_SOURCE}

\* An entry as a fetch pushes it: fresh on success, with the error on failure.
EvidenceEntries ==
  {[source |-> src, freshness_seconds |-> 60] : src \in EvidenceSources}
    \cup {[source |-> src, error |-> "unavailable"] : src \in EvidenceSources}

EvidenceLists == UNION {[1..k -> EvidenceEntries] : k \in 0..MaxEvidence}

Idle ==
  /\ provider = "part_000"
  /\ jobCache = <<>>
  /\ heap = <<>>
  /\ tasks = <<>>

InitConfidence ==
  /\ Idle
  /\ probe \in {[evidence |-> e, confidence |-> ""] : e \in EvidenceLists}

DeriveConfidence ==
  /\ probe.confidence = ""
  /\ probe' = [probe EXCEPT !.confidence = confidenceFromEvidence(probe.evidence)]
  /\ UNCHANGED <<provider, jobCache, heap, tasks>>

NextConfidence == DeriveConfidence

SpecConfidence == InitConfidence /\ [][NextConfidence]_vars

(***************************************************************************)
(* The pre_trade_risk_pack pipeline on its own: probe holds a raw          *)
(* requirement and the outcomes of the two fetches; it is validated, then  *)
(* the deliverable is built.                                               *)
(***************************************************************************)
\* m with field f set when v is given.
WithOptional(m, f, v) == IF v = Undef THEN m ELSE Put(m, f, v)

PreTradeRequirements ==
  {WithOptional(
     Put(Put(Put(ReqScenario, "notional_value_usd", notional),
             "max_slippage_bps", cap), "side", side),
     "leverage", leverage) :
     notional \in {S("10,000"), Num(50000), S("200,000")},
     cap \in {Num(10), Num(50), Num(2000)},
     side \in {S("buy"), S("SELL"), S("hold")},
     leverage \in {Undef, Num(3)}}

InitPreTrade ==
  /\ Idle
  /\ probe \in {[stage |-> "raw", req |-> r, gas |-> g, depth |-> d,
                 validation |-> <<>>, deliverable |-> <<>>] :
                  r \in PreTradeRequirements, g \in GasOutcomes, d \in DepthOutcomes}

PreTradeValidates ==
  /\ probe.stage = "raw"
  /\ probe' = [probe EXCEPT !.stage = "validated",
                            !.req = validatePreTradeRiskPack(@).req,
                            !.validation = <<[ok |-> validatePreTradeRiskPack(probe.req).ok,
                                              errors |-> validatePreTradeRiskPack(probe.req).errors]>>]
  /\ UNCHANGED <<provider, jobCache, heap, tasks>>

PreTradeBuilds ==
  /\ probe.stage = "validated"
  /\ probe' = [probe EXCEPT !.stage = "built",
                 !.deliverable =
                   <<IF probe.validation[1].ok
                       THEN buildPreTradeRiskPackDeliverable(probe.req, probe.validation[1],
                              fetchBaseGasProfile(probe.gas).evidence
                                \o fetchBaseVenueDepth(probe.depth).evidence,
                              fetchBaseGasProfile(probe.gas).data,
                              fetchBaseVenueDepth(probe.depth).data)
                       ELSE buildPreTradeRiskPackDeliverable(probe.req, probe.validation[1],
                              <<>>, <<>>, <<>>)>>]
  /\ UNCHANGED <<provider, jobCache, heap, tasks>>

NextPreTrade == PreTradeValidates \/ PreTradeBuilds

SpecPreTrade == InitPreTrade /\ [][NextPreTrade]_vars

(***************************************************************************)
(* buildDeliverableForJob on its own, without the dispatcher: the          *)
(* validator of the job name, then its builder with the outcomes g and d   *)
(* of the fetches that builder awaits.                                     *)
(***************************************************************************)
GasFetched(jobName, g) ==
  IF "gas" \in Range(FetchPlan(jobName)) THEN fetchBaseGasProfile(g) ELSE NoFetch

DepthFetched(jobName, d) ==
  IF "depth" \in Range(FetchPlan(jobName)) THEN fetchBaseVenueDepth(d) ELSE NoFetch

\* The builder's result for the validation val: nothing is fetched when it
\* failed.
BuiltFrom(jobName, val, g, d) ==
  IF val.ok
    THEN buildDeliverableForJob(jobName, val.req, [ok |-> TRUE, errors |-> val.errors],
           GasFetched(jobName, g).evidence \o DepthFetched(jobName, d).evidence,
           GasFetched(jobName, g).data, DepthFetched(jobName, d).data)
    ELSE buildDeliverableForJob(jobName, val.req, [ok |-> FALSE, errors |-> val.errors],
           <<>>, <<>>, <<>>)

DeliverableForJob(jobName, r, g, d) == BuiltFrom(jobName, validateForJob(jobName, r), g, d)

(***************************************************************************)
(* Risk scores of two requests that differ in notional only: probe holds   *)
(* the job kind, the two requirements and the outcomes of the fetches, and *)
(* after scoring the two deliverables.                                     *)
(***************************************************************************)
ScoreNotionals ==
  {Num(1000), Num(9000), S("10,000"), Num(100000), Num(200000), Num(1000000)}

\* A valid request of the job kind with the given leverage.
ScoreBase(kind, leverage) ==
  IF kind = "pre_trade_risk_pack" THEN WithOptional(ReqScenario, "leverage", leverage)
  ELSE WithOptional(ReqSentinel, "leverage", leverage)

ScoreLeverages(kind) ==
  IF kind = "pre_trade_risk_pack" THEN {Undef, Num(2), Num(3)}
  ELSE {Num(1), Num(3), Num(5)}

\* risk_sentinel fetches nothing: its two outcomes are fixed.
ScoreGasOutcomes(kind) == IF kind = "pre_trade_risk_pack" THEN GasOutcomes ELSE {HttpThrew}

ScoreDepthOutcomes(kind) ==
  IF kind = "pre_trade_risk_pack" THEN DepthOutcomes ELSE {HttpThrew}

InitScore ==
  /\ provider \in PROVIDERS
  /\ jobCache = <<>>
  /\ heap = <<>>
  /\ tasks = <<>>
  /\ \E kind \in {IF provider = "part_000" THEN "pre_trade_risk_pack" ELSE "risk_sentinel"} :
       probe \in {[stage |-> "raw", kind |-> kind,
                   first |-> Put(ScoreBase(kind, lev), "notional_value_usd", n1),
                   second |-> Put(ScoreBase(kind, lev), "notional_value_usd", n2),
                   gas |-> g, depth |-> d, delivered |-> <<>>] :
                    lev \in ScoreLeverages(kind),
                    n1 \in ScoreNotionals, n2 \in ScoreNotionals,
                    g \in ScoreGasOutcomes(kind), d \in ScoreDepthOutcomes(kind)}

ScoresPreTrade ==
  /\ probe.stage = "raw" /\ provider = "part_000"
  /\ probe' = [probe EXCEPT !.stage = "scored",
                 !.delivered =
                   <<DeliverableForJob(probe.kind, probe.first, probe.gas, probe.depth),
                     DeliverableForJob(probe.kind, probe.second, probe.gas, probe.depth)>>]
  /\ UNCHANGED <<provider, jobCache, heap, tasks>>

ScoresSentinel ==
  /\ probe.stage = "raw" /\ provider = "part_001"
  /\ probe' = [probe EXCEPT !.stage = "scored",
                 !.delivered = <<buildDeliverableForJobV1(probe.kind, probe.first),
                                 buildDeliverableForJobV1(probe.kind, probe.second)>>]
  /\ UNCHANGED <<provider, jobCache, heap, tasks>>

NextScore == ScoresPreTrade \/ ScoresSentinel

SpecScore == InitScore /\ [][NextScore]_vars

(***************************************************************************)
(* The validators and builders of every job kind on their own: probe holds *)
(* the job kind, the requirement as given (raw) and as the validator       *)
(* leaves it (req), the fields that were varied, and after each stage the  *)
(* validation result and the deliverable.                                  *)
(***************************************************************************)
\* A requirement whose every property has the wrong type.
ReqHostile ==
  Fields(<< <<"client_agent_id", Num(7)>>, <<"chain", Null>>,
            <<"asset_in", Obj(EmptyMap)>>, <<"asset_out", Arr(<<>>)>>,
            <<"side", Bool(TRUE)>>, <<"notional_value_usd", Str(<<"a", "b", "c">>)>>,
            <<"max_slippage_bps", Null>>, <<"execution_venue", Arr(<<Null, Num(1)>>)>>,
            <<"urgency", Num(1)>>, <<"leverage", Str(<<"x">>)>>,
            <<"time_horizon_minutes", Bool(FALSE)>>,
            <<"allowed_venues", Arr(<<Null, Obj(EmptyMap)>>)>>,
            <<"prefer_stable_routes", Str(<<"n", "o">>)>>,
            <<"deadline_seconds", Obj(EmptyMap)>>, <<"lookback_minutes", Arr(<<>>)>>,
            <<"minimum_notional_usd", Null>>, <<"min_notional_usd", Bool(TRUE)>>,
            <<"focus_assets", Arr(<<Null, Num(3), Str(<<>>)>>)>>,
            <<"severity_floor", Num(3)>>, <<"asset_pair", Null>>,
            <<"tx_type", Num(1)>>, <<"strategy_name", Arr(<<>>)>>,
            <<"strategy_description", Null>>,
            <<"contracts_involved", Arr(<<Null, Num(1)>>)>>,
            <<"max_leverage", Str(<<"3">>)>>, <<"target_yield_apy", Null>>,
            <<"current_positions", Arr(<<Null, Num(2), Obj(EmptyMap), Str(<<"x">>)>>)>>,
            <<"risk_tolerance", Num(1)>>, <<"target_objective", Null>> >>)

\* Requirements of every shape: none, each job kind's own, another kind's,
\* the ill-typed one and the one String() cannot convert.
NamedRequirements ==
  {EmptyMap, ReqScenario, ReqMalformed, ReqQuote, ReqIntel, ReqSentinel, ReqGasBad,
   ReqStrategy, ReqHostile, ReqUnprintable}

\* For the two validators whose fields are varied one by one: a value that
\* satisfies the field's rule (Undef: the property is absent) and one that
\* violates it.
FieldValues(kind) ==
  IF kind = "pre_trade_risk_pack" THEN
    [client_agent_id |-> [good |-> S("x"), bad |-> Undef],
     chain |-> [good |-> S("Base"), bad |-> Str(<<"e", "t", "h">>)],
     asset_in |-> [good |-> S("USDC"), bad |-> Num(7)],
     asset_out |-> [good |-> S("WETH"), bad |-> Str(<<" ">>)],
     side |-> [good |-> S("SELL"), bad |-> S("hold")],
     notional_value_usd |-> [good |-> S("10,000"), bad |-> Num(0)],
     execution_venue |-> [good |-> Undef, bad |-> Str(<<"d", "e", "x">>)],
     max_slippage_bps |-> [good |-> Str(<<"5", "0">>), bad |-> Num(5000)],
     urgency |-> [good |-> Undef, bad |-> Str(<<"a", "s", "a", "p">>)],
     leverage |-> [good |-> Undef, bad |-> Num(0)],
     time_horizon_minutes |-> [good |-> Undef, bad |-> Num(0)]]
  ELSE
    [client_agent_id |-> [good |-> S("x"), bad |-> Str(<<>>)],
     chain |-> [good |-> S("base"), bad |-> Undef],
     asset_in |-> [good |-> S("USDC"), bad |-> Undef],
     asset_out |-> [good |-> S("WETH"), bad |-> Null],
     notional_value_usd |-> [good |-> Num(50000), bad |-> Str(<<"a", "b", "c">>)],
     max_slippage_bps |-> [good |-> Num(30), bad |-> Num(0)],
     allowed_venues |-> [good |-> Undef, bad |-> Arr(<<>>)],
     deadline_seconds |-> [good |-> Undef, bad |-> Num(5)]]

\* The requirement with each field set as chosen.
FieldRequirement(kind, choice) ==
  [f \in {g \in DOMAIN choice : FieldValues(kind)[g][choice[g]] # Undef} |->
     FieldValues(kind)[f][choice[f]]]

FieldRequirements(kind) ==
  IF kind \in {"pre_trade_risk_pack", "execution_quote_and_route"}
    THEN {FieldRequirement(kind, choice) :
            choice \in [DOMAIN FieldValues(kind) -> {"good", "bad"}]}
    ELSE {}

JobsOf(p) == IF p = "part_000" THEN JOBS_V2 ELSE JOBS_V1

InitValidate ==
  /\ provider \in PROVIDERS
  /\ jobCache = <<>>
  /\ heap = <<>>
  /\ tasks = <<>>
  /\ \E kind \in JobsOf(provider) :
       \/ probe \in {[stage |-> "raw", kind |-> kind, raw |-> r, req |-> r,
                      varied |-> {}, validation |-> <<>>, deliverable |-> <<>>] :
                       r \in NamedRequirements}
       \/ /\ provider = "part_000"
          /\ probe \in {[stage |-> "raw", kind |-> kind, raw |-> r, req |-> r,
                         varied |-> DOMAIN FieldValues(kind),
                         validation |-> <<>>, deliverable |-> <<>>] :
                          r \in FieldRequirements(kind)}

\* const val = validateX(requirement || {}) in part_000: the result, and
\* the requirement normalised in place; or the validator threw.
Validates ==
  /\ probe.stage = "raw" /\ provider = "part_000"
  /\ probe' =
       IF validateForJob(probe.kind, probe.raw).raised
         THEN [probe EXCEPT !.stage = "raised",
                            !.req = validateForJob(probe.kind, probe.raw).req]
         ELSE [probe EXCEPT !.stage = "validated",
                 !.req = validateForJob(probe.kind, probe.raw).req,
                 !.validation = <<[ok |-> validateForJob(probe.kind, probe.raw).ok,
                                   errors |-> validateForJob(probe.kind, probe.raw).errors]>>]
  /\ UNCHANGED <<provider, jobCache, heap, tasks>>

\* The same in part_001, whose validators only read the requirement.
ValidatesV1 ==
  /\ probe.stage = "raw" /\ provider = "part_001"
  /\ probe' = [probe EXCEPT !.stage = "validated",
                 !.validation = <<validateForJobV1(probe.kind, probe.raw)>>]
  /\ UNCHANGED <<provider, jobCache, heap, tasks>>

\* return buildX(requirement || {}, val), the fetches answering g and d.
Builds ==
  /\ probe.stage = "validated" /\ provider = "part_000"
  /\ \E g \in GasOutcomes, d \in DepthOutcomes :
       probe' = [probe EXCEPT !.stage = "built",
                   !.deliverable =
                     <<BuiltFrom(probe.kind,
                                 [ok |-> probe.validation[1].ok,
                                  errors |-> probe.validation[1].errors,
                                  req |-> probe.req], g, d)>>]
  /\ UNCHANGED <<provider, jobCache, heap, tasks>>

BuildsV1 ==
  /\ probe.stage = "validated" /\ provider = "part_001"
  /\ probe' = [probe EXCEPT !.stage = "built",
                 !.deliverable = <<BuiltFromV1(probe.kind, probe.req, probe.validation[1])>>]
  /\ UNCHANGED <<provider, jobCache, heap, tasks>>

NextValidate == Validates \/ ValidatesV1 \/ Builds \/ BuildsV1

SpecValidate == InitValidate /\ [][NextValidate]_vars

(***************************************************************************)
(* Properties.                                                             *)
(***************************************************************************)
TaskIds == 1..Len(tasks)

IsNegotiation(t) == IsPending(t.notification) /\ t.notification.nextPhase = 1

IsDelivery(t) == IsPending(t.notification) /\ t.notification.nextPhase = 3

IsNoAction(t) == ~IsPending(t.notification) \/ t.notification.nextPhase \notin {1, 3}

\* A negotiation that reached jobCache.set.
Wrote(t) == IsNegotiation(t) /\ t.responds # <<>>

\* k is the last negotiation before i that wrote the entry of i's job.
LatestWrite(k, i) ==
  /\ k < i /\ Wrote(tasks[k]) /\ tasks[k].job = tasks[i].job
  /\ \A m \in (k + 1)..(i - 1) : ~(Wrote(tasks[m]) /\ tasks[m].job = tasks[i].job)

\* Some delivery has read the requirement task k cached.
ReadByDelivery(k) ==
  \E i \in (k + 1)..Len(tasks) :
    IsDelivery(tasks[i]) /\ tasks[i].requirement = tasks[k].requirement

\* The deliverables handed to job.deliver so far.
Delivered == {tasks[i].delivers[1] : i \in {j \in TaskIds : tasks[j].delivers # <<>>}}

\* C1: a delivery for a job reads back the job kind and the requirement
\* that the latest negotiation for that job stored; and until a delivery has
\* read it, the cached requirement has the properties it was stored with.
C1_CacheRoundTrip ==
  /\ \A i \in TaskIds : \A k \in TaskIds :
       (IsDelivery(tasks[i]) /\ LatestWrite(k, i)) =>
         /\ tasks[i].jobName = tasks[k].jobName
         /\ tasks[i].requirement = tasks[k].requirement
  /\ \A k \in TaskIds :
       (Wrote(tasks[k]) /\ ~ReadByDelivery(k)) =>
         ReqProps(tasks[k].requirement, heap) = tasks[k].stored[1]

\* A delivery read the pair of the second of two negotiations for its job.
C1_Witness ==
  \E i \in TaskIds, k \in TaskIds, m \in TaskIds :
    /\ IsDelivery(tasks[i]) /\ LatestWrite(k, i)
    /\ m < k /\ Wrote(tasks[m]) /\ tasks[m].job = tasks[k].job
    /\ tasks[m].jobName # tasks[k].jobName
    /\ tasks[i].jobName = tasks[k].jobName

\* No negotiation was notified for the job of task i before it.
NeverNegotiated(i) ==
  \A k \in 1..(i - 1) : ~(IsNegotiation(tasks[k]) /\ tasks[k].job = tasks[i].job)

UnsupportedMessage ==
  IF provider = "part_000" THEN UNSUPPORTED_MESSAGE_V2 ELSE UNSUPPORTED_MESSAGE_V1

\* C2: a PENDING delivery notification for a job that was never negotiated
\* does not raise; the job kind is "unknown", the requirement the empty
\* mapping, and the one deliverable handed to job.deliver has error = true,
\* validation_passed = false and the fixed unsupported-job message.
C2_UnknownJobDelivery ==
  \A i \in TaskIds :
    (IsDelivery(tasks[i]) /\ NeverNegotiated(i)) =>
      /\ tasks[i].pc = "done"
      /\ tasks[i].jobName = "unknown"
      /\ tasks[i].requirement = Obj(EmptyMap)
      /\ Len(tasks[i].delivers) = 1
      /\ tasks[i].delivers[1].job_name = "unknown"
      /\ tasks[i].delivers[1].error = TRUE
      /\ tasks[i].delivers[1].validation_passed = FALSE
      /\ tasks[i].delivers[1].message = UnsupportedMessage

\* A never-negotiated job was delivered while another job was cached.
C2_Witness ==
  \E i \in TaskIds :
    /\ IsDelivery(tasks[i]) /\ NeverNegotiated(i)
    /\ \E k \in 1..(i - 1) : Wrote(tasks[k])
    /\ tasks[i].delivers # <<>>

\* C3: every PENDING notification with target phase 3 leads to one
\* job.deliver call, on every path, provided its fetches settle; no handler
\* delivers twice, and a delivery made is never followed by another.
C3_DeliveryCompletes ==
  /\ \A i \in 1..MaxNotifs :
       (i \in TaskIds /\ IsDelivery(tasks[i]))
         ~> (i \in TaskIds /\ tasks[i].pc = "done" /\ Len(tasks[i].delivers) = 1)
  /\ [](\A i \in TaskIds : Len(tasks[i].delivers) <= 1)
  /\ [][\A i \in TaskIds :
          tasks[i].delivers # <<>> => tasks'[i].delivers = tasks[i].delivers]_vars

\* A validated delivery went through both fetches, the second one failing,
\* and delivered.
C3_Witness ==
  \E i \in TaskIds :
    /\ IsDelivery(tasks[i]) /\ tasks[i].pc = "done"
    /\ tasks[i].gasR # <<>> /\ tasks[i].depthR # <<>>
    /\ ~tasks[i].depthR[1].ok
    /\ Len(tasks[i].delivers) = 1

\* What the code keeps of C3: a delivery ends with exactly one job.deliver
\* call unless its validator raised on a field String() cannot convert.
C3_CompletesUnlessUnconvertible ==
  \A i \in 1..MaxNotifs :
    (i \in TaskIds /\ IsDelivery(tasks[i]))
      ~> (i \in TaskIds
            /\ \/ tasks[i].pc = "raised"
               \/ tasks[i].pc = "done" /\ Len(tasks[i].delivers) = 1)

Rationale == IF provider = "part_000" THEN RATIONALE_V2 ELSE RATIONALE_V1

\* C4: every PENDING notification with target phase 1 leads to one
\* job.respond call with approve = true and the fixed rationale, whatever
\* the payload; the handler never raises before responding.
C4_AlwaysAccepts ==
  \A i \in TaskIds :
    IsNegotiation(tasks[i]) =>
      /\ tasks[i].pc # "raised"
      /\ tasks[i].responds = <<[approve |-> TRUE, rationale |-> Rationale]>>

\* What the code does keep: a negotiation rejects nothing, responds at most
\* once, and fails to respond only when part_000 is given a requirement
\* that is a primitive value.
C4_AcceptsUnlessPrimitive ==
  \A i \in TaskIds :
    IsNegotiation(tasks[i]) =>
      IF provider = "part_000"
           /\ tasks[i].requirement.t \notin {"ref", "object", "array"}
        THEN tasks[i].pc = "raised" /\ tasks[i].responds = <<>>
        ELSE tasks[i].responds = <<[approve |-> TRUE, rationale |-> Rationale]>>

\* A negotiation whose handler raised.
C4_Witness ==
  \E i \in TaskIds : IsNegotiation(tasks[i]) /\ tasks[i].pc = "raised"

\* C5: a notification that requires no action (memo absent, status other
\* than PENDING, or a PENDING memo with a target phase other than 1 and 3)
\* leaves the Job Cache and the cached objects as they are and calls
\* neither job.respond nor job.deliver.
C5_NoActionIsNoOp ==
  [][(Len(tasks') = Len(tasks) + 1 /\ IsNoAction(tasks'[Len(tasks')])) =>
       /\ jobCache' = jobCache
       /\ heap' = heap
       /\ SubSeq(tasks', 1, Len(tasks)) = tasks
       /\ tasks'[Len(tasks')].responds = <<>>
       /\ tasks'[Len(tasks')].delivers = <<>>
       /\ tasks'[Len(tasks')].pc = "done"]_vars

\* Each kind of no-action notification arrived after a job was cached.
C5_Witness ==
  /\ jobCache # <<>>
  /\ Len(tasks) = 3
  /\ Wrote(tasks[1])
  /\ ~IsPending(tasks[2].notification)
  /\ IsPending(tasks[3].notification) /\ IsNoAction(tasks[3])

\* The deliverable carries a rejecting decision and a risk score of 0.
Rejects(d) ==
  /\ "decision" \in DOMAIN d /\ d.decision \in {"REJECT", "reject"}
  /\ "risk_score" \in DOMAIN d /\ d.risk_score = 0

\* C6 as stated: every deliverable handed to job.deliver with
\* validation_passed = false has a rejecting decision and a risk score of 0.
C6_InvalidAlwaysRejects ==
  \A d \in Delivered : ~d.validation_passed => Rejects(d)

\* The job kinds whose validation failure is a rejection.
RejectingKinds ==
  IF provider = "part_000" THEN JOBS_V2 ELSE {"risk_sentinel"}

\* C6: a deliverable with validation_passed = false has a rejecting
\* decision and a risk score of 0 when it is the validation failure of one
\* of the three job kinds of part_000 or of risk_sentinel of part_001; the
\* unsupported-job deliverable and the validation failures of the other job
\* kinds of part_001 carry neither a decision nor a risk score.
C6_InvalidRejectsWhereScored ==
  \A d \in Delivered :
    ~d.validation_passed =>
      IF d.job_name \in RejectingKinds
        THEN Rejects(d)
        ELSE "decision" \notin DOMAIN d /\ "risk_score" \notin DOMAIN d

\* A validation failure was delivered for a scored job kind.
C6_Witness ==
  \E d \in Delivered :
    ~d.validation_passed /\ d.job_name \in RejectingKinds /\ Rejects(d)

\* C7: in the pre_trade_risk_pack synthesis, a validated request whose risk
\* score is at least 80 gets decision REJECT and size factor 0, also when
\* the estimated slippage exceeds the cap; and the decision is REJECT only
\* when the score is at least 80.
C7_RejectOverridesReduce ==
  (probe.stage = "built" /\ probe.validation[1].ok) =>
    LET d == probe.deliverable[1] IN
      /\ d.risk_score >= 80 =>
           d.decision = "REJECT" /\ d.recommended_size_factor_x100 = 0
      /\ d.decision = "REJECT" => d.risk_score >= 80

\* A validated request scored at least 80 with the slippage above its cap.
C7_Witness ==
  /\ probe.stage = "built" /\ probe.validation[1].ok
  /\ probe.deliverable[1].risk_score >= 80
  /\ probe.deliverable[1].liquidity_analysis.estimated_slippage_bps_at_size
       > Get(probe.req, "max_slippage_bps").n
  /\ probe.deliverable[1].decision = "REJECT"

\* The labels of an evidence list.
Labels(evidence) == {evidence[i].source : i \in 1..Len(evidence)}

\* The level for a set of labels: by how many of the two sources occur.
LevelOf(labels) ==
  LET n == Cardinality(labels \cap {GAS_SOURCE, DEPTH_SOURCE})
  IN IF n = 2 THEN "high" ELSE IF n = 1 THEN "medium" ELSE "low"

\* C8: the confidence level is a function of the set of source labels of
\* the evidence list: "high" with both the gas-profile and the venue-depth
\* label, "medium" with exactly one, "low" with neither; every list with
\* the same labels, whatever its order, duplicates and success or failure
\* of its entries, gets the same level.
C8_ConfidenceByLabels ==
  probe.confidence # "" =>
    /\ probe.confidence = LevelOf(Labels(probe.evidence))
    /\ \A e \in EvidenceLists :
         Labels(e) = Labels(probe.evidence) =>
           confidenceFromEvidence(e) = probe.confidence

\* A list with both labels, one of them only on failed entries and one
\* twice, was derived as "high".
C8_Witness ==
  /\ probe.confidence = "high"
  /\ Len(probe.evidence) = 3
  /\ \E i \in 1..3 : probe.evidence[i].source = GAS_SOURCE
  /\ \A i \in 1..3 :
       probe.evidence[i].source = GAS_SOURCE => "error" \in DOMAIN probe.evidence[i]
  /\ Cardinality({i \in 1..3 : probe.evidence[i].source = DEPTH_SOURCE}) = 2

\* Task i delivered a validated pre_trade_risk_pack request with both
\* resources unavailable.
PreTradeUnavailable(i) ==
  /\ IsDelivery(tasks[i]) /\ tasks[i].pc = "done"
  /\ tasks[i].jobName = "pre_trade_risk_pack"
  /\ tasks[i].validation # <<>> /\ tasks[i].validation[1].ok
  /\ tasks[i].gasR # <<>> /\ ~tasks[i].gasR[1].ok
  /\ tasks[i].depthR # <<>> /\ ~tasks[i].depthR[1].ok

\* C9: a validated pre_trade_risk_pack request delivered while both
\* resources are unavailable has confidence_level "low".
C9_LowWhenUnavailable ==
  \A i \in TaskIds :
    PreTradeUnavailable(i) => tasks[i].delivers[1].confidence_level = "low"

\* What the code delivers in that case.
C9_HighWhenUnavailable ==
  \A i \in TaskIds :
    PreTradeUnavailable(i) => tasks[i].delivers[1].confidence_level = "high"

C9_Witness == \E i \in TaskIds : PreTradeUnavailable(i)

\* Task i is the finished delivery of the job negotiated with the scenario
\* requirement (notional "10,000", cap 50, side "buy", chain "base", venue
\* "unknown"), no resource having answered it.
DeliversScenario(i) ==
  /\ IsDelivery(tasks[i]) /\ tasks[i].pc = "done"
  /\ tasks[i].gasR = <<>> \/ ~tasks[i].gasR[1].ok
  /\ tasks[i].depthR = <<>> \/ ~tasks[i].depthR[1].ok
  /\ \E k \in TaskIds :
       /\ LatestWrite(k, i)
       /\ tasks[k].notification.structuredContent =
            Named("pre_trade_risk_pack", Obj(ReqScenario))

\* C10: negotiating and then delivering the scenario with both resources
\* unavailable yields validation_passed = true and decision APPROVE; the
\* slippage estimate is the fallback clamp(round((10000/50000)*80),15,180),
\* below the cap of 50, and the risk score is below 80.
C10_ScenarioApproved ==
  \A i \in TaskIds :
    DeliversScenario(i) =>
      LET d == tasks[i].delivers[1] IN
        /\ d.validation_passed
        /\ d.decision = "APPROVE"
        /\ d.liquidity_analysis.estimated_slippage_bps_at_size = 16
        /\ d.liquidity_analysis.estimated_slippage_bps_at_size < 50
        /\ d.risk_score < 80

\* The scenario was delivered after both of its fetches failed.
C10_Witness ==
  \E i \in TaskIds :
    /\ DeliversScenario(i) /\ PreTradeUnavailable(i)
    /\ tasks[i].delivers[1].decision = "APPROVE"

\* Task i is the finished delivery of the job negotiated with the malformed
\* pre_trade_risk_pack requirement: no client_agent_id, side "hold".
DeliversMalformed(i) ==
  /\ IsDelivery(tasks[i]) /\ tasks[i].pc = "done"
  /\ \E k \in TaskIds :
       /\ LatestWrite(k, i)
       /\ tasks[k].notification.structuredContent =
            Named("pre_trade_risk_pack", Obj(ReqMalformed))

\* C11: negotiating and then delivering a pre_trade_risk_pack job whose
\* requirement lacks client_agent_id and has side "hold" delivers, without
\* any fetch, a deliverable with validation_passed = false, the errors
\* "client_agent_id: must be a non-empty string" and "side: must be 'buy' or
\* 'sell'", decision REJECT and risk score 0.
C11_MalformedRejected ==
  \A i \in TaskIds :
    DeliversMalformed(i) =>
      /\ tasks[i].gasR = <<>> /\ tasks[i].depthR = <<>>
      /\ Len(tasks[i].delivers) = 1
      /\ LET d == tasks[i].delivers[1] IN
           /\ d.job_name = "pre_trade_risk_pack"
           /\ d.validation_passed = FALSE
           /\ "client_agent_id: must be a non-empty string" \in Range(d.validation_errors)
           /\ "side: must be 'buy' or 'sell'" \in Range(d.validation_errors)
           /\ d.decision = "REJECT"
           /\ d.risk_score = 0

\* The malformed request was negotiated and delivered, with exactly the two
\* errors of its two violated fields.
C11_Witness ==
  \E i \in TaskIds :
    /\ DeliversMalformed(i)
    /\ tasks[i].delivers # <<>>
    /\ Len(tasks[i].delivers[1].validation_errors) = 2

\* The notional of a request whose validation passed.
NotionalOf(r) == toNumber(Get(r, "notional_value_usd")).n

\* The slippage estimate of a deliverable; risk_sentinel has none.
SlippageOf(d) ==
  IF "liquidity_analysis" \in DOMAIN d
    THEN d.liquidity_analysis.estimated_slippage_bps_at_size ELSE 0

\* C12: of two validated requests of one job kind (pre_trade_risk_pack, or
\* risk_sentinel in part_001) that differ in notional only and have the
\* same estimated slippage, gas congestion level and leverage, the one with
\* the larger notional has a risk score at least as large as the other's.
C12_ScoreMonotoneInNotional ==
  (probe.stage = "scored"
     /\ probe.delivered[1].validation_passed /\ probe.delivered[2].validation_passed
     /\ SlippageOf(probe.delivered[1]) = SlippageOf(probe.delivered[2])
     /\ NotionalOf(probe.first) <= NotionalOf(probe.second))
    => probe.delivered[1].risk_score <= probe.delivered[2].risk_score

\* Two validated requests with the same slippage estimate, the second with
\* the larger notional and the strictly larger score.
C12_Witness ==
  /\ probe.stage = "scored"
  /\ probe.delivered[1].validation_passed /\ probe.delivered[2].validation_passed
  /\ SlippageOf(probe.delivered[1]) = SlippageOf(probe.delivered[2])
  /\ NotionalOf(probe.first) < NotionalOf(probe.second)
  /\ probe.delivered[1].risk_score < probe.delivered[2].risk_score

\* C13: for every supported job kind of either provider and every
\* requirement mapping, well-typed or not, the validator returns a
\* ValidationResult (a flag and a sequence of errors) instead of raising;
\* for the empty mapping the flag is false and there is at least one error.
C13_ValidationTotal ==
  /\ probe.stage # "raised"
  /\ probe.stage \in {"validated", "built"} =>
    /\ Len(probe.validation) = 1
    /\ probe.validation[1].ok \in BOOLEAN
    /\ DOMAIN probe.validation[1].errors = 1..Len(probe.validation[1].errors)
    /\ probe.raw = EmptyMap =>
         ~probe.validation[1].ok /\ Len(probe.validation[1].errors) >= 1

\* Some property of the requirement as given cannot be converted by
\* String().
Unconvertible(r) == \E f \in DOMAIN r : ToStringThrows(r[f])

\* What the code does keep: a validator raises only in part_000 and only on
\* a requirement with a property String() cannot convert; on every other
\* mapping it returns, and refuses the empty one.
C13_TotalUnlessUnconvertible ==
  /\ probe.stage = "raised" => provider = "part_000" /\ Unconvertible(probe.raw)
  /\ (probe.stage \in {"validated", "built"} /\ probe.raw = EmptyMap) =>
       ~probe.validation[1].ok /\ Len(probe.validation[1].errors) >= 1

\* The validator of pre_trade_risk_pack raised.
C13_Witness == probe.stage = "raised" /\ probe.kind = "pre_trade_risk_pack"

\* C14: every validation result has ok = true exactly when its errors are
\* empty, and the deliverable built from it has validation_passed equal to
\* that ok and no validation errors when validation_passed = true.
C14_OkIffNoErrors ==
  /\ probe.stage \in {"validated", "built"} =>
       (probe.validation[1].ok <=> probe.validation[1].errors = <<>>)
  /\ probe.stage = "built" =>
       /\ probe.deliverable[1].validation_passed = probe.validation[1].ok
       /\ probe.deliverable[1].validation_passed =>
            probe.deliverable[1].validation_errors = <<>>

\* A deliverable was built from a validation that passed.
C14_Witness ==
  /\ probe.stage = "built"
  /\ probe.validation[1].ok /\ probe.validation[1].errors = <<>>
  /\ probe.deliverable[1].validation_passed
  /\ probe.deliverable[1].validation_errors = <<>>

\* The errors the validators of pre_trade_risk_pack and
\* execution_quote_and_route push for a field.
FieldErrors(f) ==
  CASE f = "client_agent_id" -> {"client_agent_id: must be a non-empty string"}
    [] f = "chain" -> {"chain: must be a non-empty string",
                       "chain: must be one of: base, base-sepolia"}
    [] f = "asset_in" -> {"asset_in: must be token symbol or address"}
    [] f = "asset_out" -> {"asset_out: must be token symbol or address"}
    [] f = "side" -> {"side: must be 'buy' or 'sell'"}
    [] f = "notional_value_usd" ->
         {"notional_value_usd: must be a positive number (numeric string allowed)"}
    [] f = "execution_venue" ->
         {"execution_venue: must be one of: aerodrome, uniswap_v3, uniswap_v2, unknown"}
    [] f = "max_slippage_bps" ->
         {"max_slippage_bps: must be integer 1..2000 (e.g., 50 = 0.50%)",
          "max_slippage_bps: must be integer 1..2000"}
    [] f = "urgency" -> {"urgency: must be low/normal/high"}
    [] f = "leverage" -> {"leverage: must be >= 1 (1 for spot)"}
    [] f = "time_horizon_minutes" ->
         {"time_horizon_minutes: must be integer 1..10080 (optional)"}
    [] f = "allowed_venues" -> {"allowed_venues: must be a non-empty array if provided"}
    [] f = "deadline_seconds" ->
         {"deadline_seconds: must be integer 60..3600 (default 180)"}

\* The varied fields that were given their violating value.
ViolatedFields ==
  {f \in probe.varied : Get(probe.raw, f) = FieldValues(probe.kind)[f].bad}

\* C15: one validation pass of a pre_trade_risk_pack or
\* execution_quote_and_route requirement reports an error for a field
\* exactly when that field is violated, whatever the other fields are, and
\* one error for each violated field.
C15_NoShortCircuit ==
  (probe.stage \in {"validated", "built"} /\ probe.varied # {}) =>
    /\ \A f \in probe.varied :
         f \in ViolatedFields <=>
           FieldErrors(f) \cap Range(probe.validation[1].errors) # {}
    /\ Len(probe.validation[1].errors) = Cardinality(ViolatedFields)

\* A pre_trade_risk_pack requirement with all eleven fields violated was
\* validated and has eleven errors.
C15_Witness ==
  /\ probe.stage = "validated" /\ probe.kind = "pre_trade_risk_pack"
  /\ probe.varied # {} /\ ViolatedFields = probe.varied
  /\ Len(probe.validation[1].errors) = 11

\* Task i is a delivery whose cached job kind the running dispatcher has no
\* case for.
DeliversForeignKind(i) ==
  /\ IsDelivery(tasks[i])
  /\ tasks[i].jobName \notin JobsOf(provider)

\* C16: a delivery whose job kind is outside the dispatcher's set, kinds of
\* the other dispatcher included, does not raise, runs no validator, awaits
\* no fetch, and hands job.deliver the one fixed unsupported-job deliverable
\* with error = true and validation_passed = false.
C16_UnsupportedKindDelivered ==
  \A i \in TaskIds :
    DeliversForeignKind(i) =>
      /\ tasks[i].pc = "done"
      /\ tasks[i].validation = <<>>
      /\ tasks[i].gasR = <<>> /\ tasks[i].depthR = <<>>
      /\ Len(tasks[i].delivers) = 1
      /\ LET d == tasks[i].delivers[1] IN
           /\ d.error = TRUE
           /\ d.validation_passed = FALSE
           /\ d.validation_errors = <<"Unknown or unsupported job_name.">>
           /\ d.message = UnsupportedMessage
           /\ d.job_name = tasks[i].jobName
           /\ provider = "part_000" =>
                DOMAIN d = {"job_name", "agent_version", "chain", "validation_passed",
                            "validation_errors", "error", "message"}
           /\ provider = "part_001" =>
                /\ DOMAIN d = {"job_name", "validation_passed", "validation_errors",
                               "error", "message", "summary"}
                /\ d.summary = [overall_status |-> "unsupported_job"]

\* A negotiated job of a kind only the other dispatcher handles was
\* delivered as unsupported.
C16_Witness ==
  \E i \in TaskIds :
    /\ DeliversForeignKind(i)
    /\ tasks[i].jobName \in (JOBS_V1 \cup JOBS_V2)
    /\ \E k \in TaskIds : LatestWrite(k, i)
    /\ tasks[i].delivers # <<>> /\ tasks[i].delivers[1].error = TRUE

(***************************************************************************)
(* The evidence fetches and the synthesis after them, for a request that   *)
(* passed validation: probe holds the job kind, the requirement, the HTTP  *)
(* outcome of each resource, then what each fetch returned, then the       *)
(* deliverable.  Response.ok is true for a status of 200 to 299.           *)
(***************************************************************************)
HttpResponse(status, json) ==
  [threw |-> FALSE, message |-> "", ok |-> status \in 200..299, status |-> status,
   json |-> json]

Body(ok, message, data) == <<[ok |-> ok, message |-> message, data |-> data]>>

GasProfile == [congestion_level |-> "high", volatility_pct |-> 60]

DepthBook ==
  [venues |-> <<Venue("uniswap_v3", 900000, 120), Venue("aerodrome", 400000, 12)>>,
   best_by_depth |-> <<Venue("uniswap_v3", 900000, 120)>>]

\* What a resource may answer besides the outcomes above: a null body, a
\* body without message, ok = false under status 200, ok = true under an
\* error status, and a success status other than 200.
OtherOutcomes(data) ==
  {HttpResponse(200, <<>>),
   HttpResponse(404, <<>>),
   HttpResponse(200, Body(FALSE, "stale", <<>>)),
   HttpResponse(200, Body(FALSE, "", <<>>)),
   HttpResponse(503, Body(TRUE, "", <<data>>)),
   HttpResponse(201, Body(TRUE, "", <<data>>))}

FetchGasOutcomes == GasOutcomes \cup OtherOutcomes(GasProfile)

FetchDepthOutcomes == DepthOutcomes \cup OtherOutcomes(DepthBook)

\* A requirement of the kind that passes validation, as negotiation caches
\* it.
ValidRequirement(kind) ==
  CASE kind = "pre_trade_risk_pack" -> ReqScenario
    [] kind = "execution_quote_and_route" -> ReqQuote
    [] kind = "market_intelligence_feed" -> DefaultChain(ReqIntel)

InitFetch ==
  /\ provider = "part_000"
  /\ jobCache = <<>>
  /\ heap = <<>>
  /\ tasks = <<>>
  /\ probe \in {[stage |-> "validated", kind |-> kind, req |-> ValidRequirement(kind),
                  gas |-> g, depth |-> d, gasR |-> NoFetch, depthR |-> NoFetch,
                  deliverable |-> <<>>] :
                   kind \in JOBS_V2, g \in FetchGasOutcomes, d \in FetchDepthOutcomes}

\* const gasR = await fetchBaseGasProfile(), in the builders that await it.
FetchesGas ==
  /\ probe.stage = "validated"
  /\ probe' = [probe EXCEPT !.stage = "gas",
                            !.gasR = GasFetched(probe.kind, probe.gas)]
  /\ UNCHANGED <<provider, jobCache, heap, tasks>>

\* const depthR = await fetchBaseVenueDepth(...), in the builders that
\* await it.
FetchesDepth ==
  /\ probe.stage = "gas"
  /\ probe' = [probe EXCEPT !.stage = "depth",
                            !.depthR = DepthFetched(probe.kind, probe.depth)]
  /\ UNCHANGED <<provider, jobCache, heap, tasks>>

\* The rest of the builder.
Synthesises ==
  /\ probe.stage = "depth"
  /\ probe' = [probe EXCEPT !.stage = "built",
       !.deliverable = <<DeliverableForJob(probe.kind, probe.req, probe.gas,
                                           probe.depth)>>]
  /\ UNCHANGED <<provider, jobCache, heap, tasks>>

NextFetch == FetchesGas \/ FetchesDepth \/ Synthesises

SpecFetch == InitFetch /\ [][NextFetch]_vars

\* The request failed, or the body is missing or has ok = false.
NoUsableBody(h) == h.threw \/ h.json = <<>> \/ ~h.json[1].ok

Non200(h) == NoUsableBody(h) \/ h.status # 200

Non2xx(h) == NoUsableBody(h) \/ h.status \notin 200..299

\* What one fetch returned for the outcome h: one Evidence entry with the
\* fetch's own label; when it fails, an error string, null data and
\* ok = false; otherwise the freshness hint and the body's data.
FetchContract(fails, source, h, r) ==
  /\ Len(r.evidence) = 1
  /\ r.evidence[1].source = source
  /\ IF fails
       THEN /\ ~r.ok
            /\ DOMAIN r.evidence[1] = {"source", "error"}
            /\ r.evidence[1].error # ""
            /\ r.data = <<>>
       ELSE /\ r.ok
            /\ r.evidence[1] = [source |-> source, freshness_seconds |-> 60]
            /\ r.data = h.json[1].data

GasAwaited == "gas" \in Range(FetchPlan(probe.kind))

DepthAwaited == "depth" \in Range(FetchPlan(probe.kind))

\* The deliverable lists the entries of the fetches in fetch order, and a
\* failed fetch leaves its builder on the fallback defaults.
SynthesisProceeds ==
  probe.stage = "built" =>
    LET d == probe.deliverable[1] IN
      /\ d.validation_passed
      /\ d.evidence = probe.gasR.evidence \o probe.depthR.evidence
      /\ (GasAwaited /\ ~probe.gasR.ok) =>
            IF probe.kind = "pre_trade_risk_pack"
              THEN d.gas_analysis.congestion_level = "unknown"
              ELSE d.regime.gas_regime = "unknown" /\ d.alerts = <<>>
      /\ (DepthAwaited /\ ~probe.depthR.ok) =>
            IF probe.kind = "pre_trade_risk_pack"
              THEN /\ d.liquidity_analysis.best_by_depth = <<>>
                   /\ d.liquidity_analysis.estimated_liquidity_depth_usd = 300000
                   /\ d.liquidity_analysis.estimated_slippage_bps_at_size =
                        FallbackSlippage(d.liquidity_analysis.notional_usd)
              ELSE /\ d.best_venue = "unknown"
                   /\ d.estimated_slippage_bps =
                        FallbackSlippage(Get(validateForJob(probe.kind, probe.req).req,
                                             "notional_value_usd").n)

\* The gas fetch, once returned, kept the contract, failing when fails.
GasFetchKeeps(fails) ==
  (probe.stage \in {"gas", "depth", "built"} /\ GasAwaited) =>
    FetchContract(fails, GAS_SOURCE, probe.gas, probe.gasR)

DepthFetchKeeps(fails) ==
  (probe.stage \in {"depth", "built"} /\ DepthAwaited) =>
    FetchContract(fails, DEPTH_SOURCE, probe.depth, probe.depthR)

\* C17 as stated: each evidence fetch returns one Evidence entry with its
\* own source label, with the freshness hint and the fetched data on
\* success, and with an error string and null data when the request fails,
\* the response status is not 200, or the body has ok = false; synthesis
\* then proceeds on fallback defaults.
C17_FetchDegradesNon200 ==
  /\ GasFetchKeeps(Non200(probe.gas))
  /\ DepthFetchKeeps(Non200(probe.depth))
  /\ SynthesisProceeds

\* C17, amended: the same, a fetch failing when the request fails, the
\* status is outside 200..299, or the body is missing or has ok = false.
C17_FetchDegradesNon2xx ==
  /\ GasFetchKeeps(Non2xx(probe.gas))
  /\ DepthFetchKeeps(Non2xx(probe.depth))
  /\ SynthesisProceeds

\* A pre_trade_risk_pack deliverable was synthesised after its gas fetch got
\* ok = false under status 200 and its depth request threw.
C17_Witness ==
  /\ probe.stage = "built" /\ probe.kind = "pre_trade_risk_pack"
  /\ probe.gas = HttpResponse(200, Body(FALSE, "stale", <<>>))
  /\ probe.depth = HttpThrew
  /\ probe.deliverable[1].evidence =
       <<[source |-> GAS_SOURCE, error |-> "stale"],
         [source |-> DEPTH_SOURCE, error |-> "fetch failed"]>>

\* k is the last negotiation so far that wrote the entry of job.
LastWriteOf(k, job) ==
  /\ Wrote(tasks[k]) /\ tasks[k].job = job
  /\ \A m \in (k + 1)..Len(tasks) : ~(Wrote(tasks[m]) /\ tasks[m].job = job)

\* C18: after any sequence of notifications the cache has one entry for
\* each job id a negotiation wrote and none for any other, however many
\* negotiations there were; the entry of a job is the pair written by the
\* most recent negotiation for it; and a delivery made after that reports
\* the job kind of that negotiation and works on its requirement.
C18_OneEntryLatestWins ==
  /\ DOMAIN jobCache = {tasks[k].job : k \in {m \in TaskIds : Wrote(tasks[m])}}
  /\ \A job \in DOMAIN jobCache : \A k \in TaskIds :
       LastWriteOf(k, job) =>
         jobCache[job] = [jobName |-> tasks[k].jobName,
                          requirement |-> tasks[k].requirement]
  /\ \A i \in TaskIds : \A k \in TaskIds :
       (IsDelivery(tasks[i]) /\ LatestWrite(k, i) /\ tasks[i].delivers # <<>>) =>
         /\ tasks[i].delivers[1].job_name = tasks[k].jobName
         /\ tasks[i].requirement = tasks[k].requirement

\* A job was negotiated twice under different kinds and requirements and
\* then delivered: the cache has the one entry of the second negotiation
\* and the deliverable is of its kind.
C18_Witness ==
  \E i \in TaskIds, k \in TaskIds, m \in TaskIds :
    /\ m < k /\ Wrote(tasks[m]) /\ tasks[m].job = tasks[k].job
    /\ tasks[m].jobName # tasks[k].jobName
    /\ tasks[m].stored # tasks[k].stored
    /\ IsDelivery(tasks[i]) /\ LatestWrite(k, i)
    /\ Cardinality(DOMAIN jobCache) = 1
    /\ jobCache[tasks[k].job].requirement = tasks[k].requirement
    /\ tasks[i].delivers # <<>>
    /\ tasks[i].delivers[1].job_name = tasks[k].jobName

\* The notifications of the job of task i, among the first n.
OwnTasks(i, n) == {j \in 1..n : tasks[j].job = tasks[i].job}

\* The properties of the requirement a negotiation of the job stored, after
\* the validators of the job's own deliveries from j up to i - 1 have
\* normalised it in place.
RECURSIVE OwnRequirement(_, _, _, _)
OwnRequirement(props, jobName, j, i) ==
  IF j >= i THEN props
  ELSE IF j \in OwnTasks(i, i) /\ IsDelivery(tasks[j])
           /\ provider = "part_000" /\ jobName \in JOBS_V2
    THEN OwnRequirement(validateForJob(jobName, props).req, jobName, j + 1, i)
    ELSE OwnRequirement(props, jobName, j + 1, i)

\* What the fetches of task i itself returned.
OwnGas(i) == IF tasks[i].gasR = <<>> THEN NoFetch ELSE tasks[i].gasR[1]

OwnDepth(i) == IF tasks[i].depthR = <<>> THEN NoFetch ELSE tasks[i].depthR[1]

\* The calls to job.deliver of the finished delivery i as its own job's
\* notifications and its own fetches determine them: k is the latest
\* negotiation of the job that wrote, if any.
OwnDelivers(i) ==
  LET ks == {k \in OwnTasks(i, i - 1) : LatestWrite(k, i)}
  IN IF ks = {}
       THEN IF provider = "part_000"
              THEN <<unsupportedDeliverable("unknown")>>
              ELSE <<unsupportedDeliverableV1("unknown")>>
     ELSE
       LET k == CHOOSE m \in ks : TRUE
           jobName == tasks[k].jobName
           props == OwnRequirement(tasks[k].stored[1], jobName, k + 1, i)
       IN IF provider = "part_001"
            THEN <<buildDeliverableForJobV1(jobName, props)>>
          ELSE IF jobName \notin JOBS_V2
            THEN <<unsupportedDeliverable(jobName)>>
          ELSE
            LET val == validateForJob(jobName, props)
            IN IF val.raised THEN <<>>
               ELSE <<buildDeliverableForJob(jobName, val.req,
                        [ok |-> val.ok, errors |-> val.errors],
                        OwnGas(i).evidence \o OwnDepth(i).evidence,
                        OwnGas(i).data, OwnDepth(i).data)>>

RECURSIVE RequirementAfter(_, _, _, _)
RequirementAfter(props, jobName, job, j) ==
  IF j > Len(tasks) THEN props
  ELSE IF tasks[j].job = job /\ IsDelivery(tasks[j])
           /\ provider = "part_000" /\ jobName \in JOBS_V2
    THEN RequirementAfter(validateForJob(jobName, props).req, jobName, job, j + 1)
    ELSE RequirementAfter(props, jobName, job, j + 1)

\* The properties of the requirement cached for job, as they are now.
CachedProps(job) == ReqProps(jobCache[job].requirement, heap)

\* C20 as stated: the cached entry of a job has the job kind and, field for
\* field, the requirement that the job's latest negotiation stored, whatever
\* deliveries were handled since.
C20_EntryAsStored ==
  \A job \in DOMAIN jobCache : \A k \in TaskIds :
    LastWriteOf(k, job) =>
      /\ jobCache[job].jobName = tasks[k].jobName
      /\ CachedProps(job) = tasks[k].stored[1]

\* The entry of each job is the job kind and the requirement object of its
\* latest negotiation, the object's fields being those stored, normalised
\* once by the validator of each delivery of that job handled since.
EntryNormalisedByOwnDeliveries ==
  \A job \in DOMAIN jobCache : \A k \in TaskIds :
    LastWriteOf(k, job) =>
      /\ jobCache[job] = [jobName |-> tasks[k].jobName,
                          requirement |-> tasks[k].requirement]
      /\ CachedProps(job) =
           RequirementAfter(tasks[k].stored[1], tasks[k].jobName, job, k + 1)
      /\ (provider = "part_001" \/ tasks[k].jobName \notin JOBS_V2) =>
           CachedProps(job) = tasks[k].stored[1]

\* A step changes the cache mapping only by the write of a negotiation, and
\* then only under that negotiation's job id.
OnlyNegotiationWrites ==
  jobCache' # jobCache =>
    /\ Len(tasks') = Len(tasks) + 1
    /\ Wrote(tasks'[Len(tasks')])
    /\ \A job \in DOMAIN jobCache :
         job # tasks'[Len(tasks')].job =>
           job \in DOMAIN jobCache' /\ jobCache'[job] = jobCache[job]

\* C20, amended: the cache mapping is changed only by a job's negotiation;
\* a delivery adds, removes and replaces no entry and keeps each entry's job
\* kind and requirement object, but in part_000 its validator normalises
\* the fields of its own job's cached requirement in place; in part_001 the
\* fields stay as stored.
C20_EntryNormalisedInPlace ==
  /\ []EntryNormalisedByOwnDeliveries
  /\ [][OnlyNegotiationWrites]_vars

\* A delivery was handled for a job whose cached requirement now differs
\* from what its negotiation stored: notional_value_usd is a number where
\* the string "10,000" was stored.
C20_Witness ==
  \E i \in TaskIds, k \in TaskIds :
    /\ IsDelivery(tasks[i]) /\ LatestWrite(k, i)
    /\ LastWriteOf(k, tasks[i].job)
    /\ Get(tasks[k].stored[1], "notional_value_usd") = S("10,000")
    /\ Get(CachedProps(tasks[i].job), "notional_value_usd") = Num(10000)

(***************************************************************************)
(* One numeric field written three ways: probe holds a request of the job  *)
(* kind with the field as a native number, as its digit string, and as the *)
(* digit string with a comma inserted; then what toNumber makes of each,   *)
(* then the three validation results, then the three deliverables.         *)
(***************************************************************************)
NumberSamples == {7, 60, 1000, 10000, 50000, 250000}

InsertComma(cs, k) == SubSeq(cs, 1, k) \o <<",">> \o SubSeq(cs, k + 1, Len(cs))

\* The numeric fields read by toNumber in part_000 and by isPositiveNumber
\* in part_001, each with a request that is valid but for that field.
NumericFields(p) ==
  IF p = "part_000"
    THEN {[kind |-> "pre_trade_risk_pack", field |-> "notional_value_usd",
           base |-> ReqScenario],
          [kind |-> "pre_trade_risk_pack", field |-> "max_slippage_bps",
           base |-> ReqScenario],
          [kind |-> "execution_quote_and_route", field |-> "notional_value_usd",
           base |-> ReqQuote],
          [kind |-> "market_intelligence_feed", field |-> "lookback_minutes",
           base |-> DefaultChain(ReqIntel)]}
    ELSE {[kind |-> "risk_sentinel", field |-> "notional_value_usd",
           base |-> ReqSentinel]}

InitNumber ==
  /\ provider \in PROVIDERS
  /\ jobCache = <<>>
  /\ heap = <<>>
  /\ tasks = <<>>
  /\ \E nf \in NumericFields(provider), n \in NumberSamples :
       \E k \in 0..Len(NatToChars(n)) :
         probe \in {[stage |-> "raw", kind |-> nf.kind, field |-> nf.field, n |-> n,
                     forms |-> <<Put(nf.base, nf.field, Num(n)),
                                 Put(nf.base, nf.field, Str(NatToChars(n))),
                                 Put(nf.base, nf.field,
                                     Str(InsertComma(NatToChars(n), k)))>>,
                     numbers |-> <<>>, validations |-> <<>>, deliverables |-> <<>>,
                     gas |-> g, depth |-> d] :
                      g \in {HttpThrew, HttpOk(GasProfile)},
                      d \in {HttpThrew, HttpOk(DepthBook)}}

\* toNumber(req.field) for each of the three forms.
NormalisesForms ==
  /\ probe.stage = "raw" /\ provider = "part_000"
  /\ probe' = [probe EXCEPT !.stage = "number",
       !.numbers = [i \in 1..3 |-> toNumber(Get(probe.forms[i], probe.field))]]
  /\ UNCHANGED <<provider, jobCache, heap, tasks>>

ValidatesForms ==
  /\ probe.stage = "number" /\ provider = "part_000"
  /\ probe' = [probe EXCEPT !.stage = "validated",
       !.validations = [i \in 1..3 |-> validateForJob(probe.kind, probe.forms[i])]]
  /\ UNCHANGED <<provider, jobCache, heap, tasks>>

\* part_001 has no toNumber: its validator tests the value as it is.
ValidatesFormsV1 ==
  /\ probe.stage = "raw" /\ provider = "part_001"
  /\ probe' = [probe EXCEPT !.stage = "validated",
       !.validations =
         [i \in 1..3 |->
            [ok |-> validateForJobV1(probe.kind, probe.forms[i]).ok,
             errors |-> validateForJobV1(probe.kind, probe.forms[i]).errors,
             req |-> probe.forms[i], raised |-> FALSE]]]
  /\ UNCHANGED <<provider, jobCache, heap, tasks>>

BuildsForms ==
  /\ probe.stage = "validated" /\ provider = "part_000"
  /\ probe' = [probe EXCEPT !.stage = "built",
       !.deliverables =
         [i \in 1..3 |-> BuiltFrom(probe.kind, probe.validations[i],
                                   probe.gas, probe.depth)]]
  /\ UNCHANGED <<provider, jobCache, heap, tasks>>

BuildsFormsV1 ==
  /\ probe.stage = "validated" /\ provider = "part_001"
  /\ probe' = [probe EXCEPT !.stage = "built",
       !.deliverables =
         [i \in 1..3 |->
            BuiltFromV1(probe.kind, probe.forms[i],
                        [ok |-> probe.validations[i].ok,
                         errors |-> probe.validations[i].errors])]]
  /\ UNCHANGED <<provider, jobCache, heap, tasks>>

NextNumber ==
  \/ NormalisesForms \/ ValidatesForms \/ ValidatesFormsV1
  \/ BuildsForms \/ BuildsFormsV1

SpecNumber == InitNumber /\ [][NextNumber]_vars

\* Forms i and j of the field were normalised to the same number, validated
\* with the same result and delivered alike.
FormsAgree(i, j) ==
  /\ probe.stage = "number" => probe.numbers[i] = probe.numbers[j]
  /\ probe.stage \in {"validated", "built"} =>
       /\ probe.validations[i].ok = probe.validations[j].ok
       /\ probe.validations[i].errors = probe.validations[j].errors
       /\ provider = "part_000" =>
            probe.validations[i].req = probe.validations[j].req
  /\ probe.stage = "built" => probe.deliverables[i] = probe.deliverables[j]

\* C21: a numeric string with a comma inserted normalises to the same
\* number as the string without it and as the native number, so that the
\* validation result and the deliverable are the same for the three forms.
C21_CommasIgnored ==
  /\ FormsAgree(2, 3)
  /\ FormsAgree(1, 3)
  /\ probe.stage = "number" => probe.numbers[3] = Num(probe.n)

\* What the code keeps of C21: the three forms agree where toNumber reads
\* the field (part_000); under part_001 the two strings agree with each
\* other only, both being refused.
C21_CommasIgnoredWhereParsed ==
  /\ FormsAgree(2, 3)
  /\ provider = "part_000" =>
       /\ FormsAgree(1, 3)
       /\ probe.stage = "number" => probe.numbers[3] = Num(probe.n)
  /\ (provider = "part_001" /\ probe.stage \in {"validated", "built"}) =>
       ~probe.validations[2].ok /\ ~probe.validations[3].ok

\* part_000 delivered an analysed pre_trade_risk_pack for "50,000".
C21_Witness ==
  /\ probe.stage = "built" /\ provider = "part_000"
  /\ probe.kind = "pre_trade_risk_pack" /\ probe.field = "notional_value_usd"
  /\ Get(probe.forms[3], probe.field) = Str(<<"5", "0", ",", "0", "0", "0">>)
  /\ probe.deliverables[3].validation_passed

\* Some negotiation before task i signalled acceptance for i's job.
AcceptedBefore(i) ==
  \E k \in 1..(i - 1) : Wrote(tasks[k]) /\ tasks[k].job = tasks[i].job

\* Every job whose negotiation signalled acceptance has its entry, and each
\* delivery notified after the acceptance read the entry of the latest such
\* negotiation, not the default pair ("unknown", {}).
AcceptedJobsCached ==
  /\ \A k \in TaskIds : Wrote(tasks[k]) => tasks[k].job \in DOMAIN jobCache
  /\ \A i \in TaskIds :
       (IsDelivery(tasks[i]) /\ AcceptedBefore(i)) =>
         /\ tasks[i].requirement # Obj(EmptyMap)
         /\ \E k \in 1..(i - 1) :
              /\ LatestWrite(k, i)
              /\ tasks[i].jobName = tasks[k].jobName
              /\ tasks[i].requirement = tasks[k].requirement

\* No step removes an entry; and a step that signals acceptance has written
\* the entry of its job.
EntriesStay ==
  /\ DOMAIN jobCache \subseteq DOMAIN jobCache'
  /\ (Len(tasks') = Len(tasks) + 1 /\ Wrote(tasks'[Len(tasks')])) =>
       /\ tasks'[Len(tasks')].job \in DOMAIN jobCache'
       /\ jobCache'[tasks'[Len(tasks')].job].requirement =
            tasks'[Len(tasks')].requirement

\* C22: once a negotiation for a job has signalled acceptance, every later
\* delivery notification for that job finds the job's entry in the cache,
\* whatever notifications for any job come in between: the entry is written
\* in the step that signals acceptance and no step removes an entry.
C22_AcceptedEntryPersists ==
  /\ []AcceptedJobsCached
  /\ [][EntriesStay]_vars

\* A job was accepted, a negotiation of another job was handled, and then
\* the first job's delivery read its entry.
C22_Witness ==
  \E i \in TaskIds, k \in TaskIds, b \in TaskIds :
    /\ IsDelivery(tasks[i]) /\ LatestWrite(k, i)
    /\ k < b /\ b < i /\ Wrote(tasks[b]) /\ tasks[b].job # tasks[i].job
    /\ tasks[i].requirement = tasks[k].requirement
    /\ Cardinality(DOMAIN jobCache) = 2

\* The requirement the negotiation task k was given, as the handler infers
\* it from the notification.
PayloadRequirement(k) ==
  PropsOf(IF provider = "part_000"
            THEN NegotiationLocals(tasks[k].notification).requirement
            ELSE NegotiationLocalsV1(tasks[k].notification).requirement)

\* The requirement task k cached has the payload's chain if the payload
\* gave one, the configured default chain otherwise.
ChainCached(k) ==
  /\ "chain" \in DOMAIN tasks[k].stored[1]
  /\ tasks[k].stored[1].chain =
       IF Truthy(Get(PayloadRequirement(k), "chain"))
         THEN Get(PayloadRequirement(k), "chain")
         ELSE Str(Chars(ACP_CHAIN))

\* C23: after a negotiation notification is handled, the requirement cached
\* for the job has a chain field: the payload's chain when the payload
\* supplied one, otherwise the configured default chain.
C23_CachedChain ==
  \A k \in TaskIds : Wrote(tasks[k]) => ChainCached(k)

\* What the code keeps of C23: part_000 caches a chain with every
\* requirement; part_001 caches the payload's requirement as it is.
C23_CachedChainWhereDefaulted ==
  \A k \in TaskIds :
    Wrote(tasks[k]) =>
      IF provider = "part_000" THEN ChainCached(k)
      ELSE tasks[k].stored[1] = PayloadRequirement(k)

\* part_000 cached the default chain for a payload without chain.
C23_Witness ==
  \E k \in TaskIds :
    /\ provider = "part_000" /\ Wrote(tasks[k])
    /\ "chain" \notin DOMAIN PayloadRequirement(k)
    /\ tasks[k].stored[1].chain = Str(Chars(ACP_CHAIN))

(***************************************************************************)
(* The risk score over its whole input range: probe holds a request of a   *)
(* job kind whose deliverable carries a score, with size, leverage and     *)
(* yield from small to extreme, and the outcomes of the fetches; then the  *)
(* deliverable.                                                            *)
(***************************************************************************)
RiskNotionals == {Num(1), Num(9000), S("10,000"), Num(200000), Num(5000000), Num(0)}

RiskLeverages == {Undef, Num(1), Num(3), Num(20)}

\* A depth answer whose best venue has the given slippage estimate.
DepthWithSlippage(slip) ==
  HttpOk([venues |-> <<Venue("uniswap_v3", 900000, slip)>>,
          best_by_depth |-> <<Venue("uniswap_v3", 900000, slip)>>])

RiskDepthOutcomes == DepthOutcomes \cup {DepthWithSlippage(0), DepthWithSlippage(5000)}

Contracts(n) == Arr([i \in 1..n |-> S("0xpool")])

RiskRequirements(p) ==
  IF p = "part_000"
    THEN {[kind |-> "pre_trade_risk_pack",
           req |-> WithOptional(Put(ReqScenario, "notional_value_usd", n),
                                "leverage", lev)] :
            n \in RiskNotionals, lev \in RiskLeverages}
    ELSE {[kind |-> "risk_sentinel",
           req |-> WithOptional(Put(ReqSentinel, "notional_value_usd", n),
                                "leverage", lev)] :
            n \in RiskNotionals, lev \in RiskLeverages}
         \cup
         {[kind |-> "strategy_safety_audit",
           req |-> Put(Put(Put(ReqStrategy, "max_leverage", lev),
                           "target_yield_apy", apy),
                       "contracts_involved", Contracts(c))] :
            lev \in {Num(1), Num(3), Num(20)}, apy \in {Num(0), Num(25), Num(900)},
            c \in 0..5}

InitRisk ==
  /\ provider \in PROVIDERS
  /\ jobCache = <<>>
  /\ heap = <<>>
  /\ tasks = <<>>
  /\ \E r \in RiskRequirements(provider) :
       probe \in {[stage |-> "raw", kind |-> r.kind, req |-> r.req,
                   gas |-> g, depth |-> d, deliverable |-> <<>>] :
                    g \in (IF provider = "part_000" THEN GasOutcomes ELSE {HttpThrew}),
                    d \in (IF provider = "part_000" THEN RiskDepthOutcomes
                           ELSE {HttpThrew})}

\* buildDeliverableForJob of part_000 with the fetches answering as drawn.
ScoresRisk ==
  /\ probe.stage = "raw" /\ provider = "part_000"
  /\ probe' = [probe EXCEPT !.stage = "scored",
       !.deliverable = <<DeliverableForJob(probe.kind, probe.req, probe.gas,
                                           probe.depth)>>]
  /\ UNCHANGED <<provider, jobCache, heap, tasks>>

ScoresRiskV1 ==
  /\ probe.stage = "raw" /\ provider = "part_001"
  /\ probe' = [probe EXCEPT !.stage = "scored",
       !.deliverable = <<buildDeliverableForJobV1(probe.kind, probe.req)>>]
  /\ UNCHANGED <<provider, jobCache, heap, tasks>>

NextRisk == ScoresRisk \/ ScoresRiskV1

SpecRisk == InitRisk /\ [][NextRisk]_vars

\* The risk scores a deliverable carries: its own, or its summary's.
RiskScoresOf(d) ==
  (IF "risk_score" \in DOMAIN d THEN {d.risk_score} ELSE {})
    \cup (IF "summary" \in DOMAIN d /\ "risk_score" \in DOMAIN d.summary
            THEN {d.summary.risk_score} ELSE {})

\* C24: the risk score of every deliverable that carries one is an integer
\* from 0 to 100, whatever the validated size, leverage and yield and
\* whatever the fetches returned; and every deliverable of a validated
\* pre_trade_risk_pack, risk_sentinel or strategy_safety_audit request
\* carries one.
C24_RiskScoreInRange ==
  probe.stage = "scored" =>
    /\ RiskScoresOf(probe.deliverable[1]) \subseteq 0..100
    /\ probe.deliverable[1].validation_passed =>
         RiskScoresOf(probe.deliverable[1]) # {}

\* A pre_trade_risk_pack whose four sub-scores add up to more than 100 was
\* scored 100.
C24_Witness ==
  /\ probe.stage = "scored" /\ probe.kind = "pre_trade_risk_pack"
  /\ probe.deliverable[1].validation_passed
  /\ probe.deliverable[1].risk_score = 100
  /\ Get(probe.req, "notional_value_usd") = Num(5000000)
  /\ Get(probe.req, "leverage") = Num(20)
  /\ probe.depth = DepthWithSlippage(5000)

\* C25: in every pre_trade_risk_pack deliverable of a validated request the
\* size factor (in hundredths) is fixed by the decision and lies in [0,1]:
\* 1.00 for APPROVE, 0 for REJECT, and for SIZE_DOWN clamp(cap/estimate,
\* 0.2, 0.8) rounded to two decimals; SIZE_DOWN is the decision exactly when
\* the estimated slippage exceeds the cap and the score is below 80.  The
\* deliverable of a request that failed validation is a REJECT with 0.
C25_SizeFactorByDecision ==
  /\ (probe.stage = "built" /\ ~probe.validation[1].ok) =>
       /\ probe.deliverable[1].decision = "REJECT"
       /\ probe.deliverable[1].recommended_size_factor_x100 = 0
  /\ (probe.stage = "built" /\ probe.validation[1].ok) =>
    LET d == probe.deliverable[1]
        cap == Get(probe.req, "max_slippage_bps").n
        est == d.liquidity_analysis.estimated_slippage_bps_at_size
        factor == d.recommended_size_factor_x100
    IN /\ d.decision \in {"APPROVE", "SIZE_DOWN", "REJECT"}
       /\ factor \in 0..100
       /\ d.decision = "APPROVE" => factor = 100
       /\ d.decision = "REJECT" => factor = 0
       /\ d.decision = "SIZE_DOWN" =>
            factor = clamp(RoundDiv(cap * 100, est), 20, 80)
       /\ d.decision = "SIZE_DOWN" <=> (est > cap /\ d.risk_score < 80)

\* A request was sized down to the floor 0.20, its cap being a twelfth of
\* the estimate.
C25_Witness ==
  /\ probe.stage = "built" /\ probe.validation[1].ok
  /\ probe.deliverable[1].decision = "SIZE_DOWN"
  /\ Get(probe.req, "max_slippage_bps").n = 10
  /\ probe.deliverable[1].liquidity_analysis.estimated_slippage_bps_at_size = 120
  /\ probe.deliverable[1].recommended_size_factor_x100 = 20

(***************************************************************************)
(* The recommended maximum slippage over caps and estimates: probe holds a *)
(* valid pre_trade_risk_pack or execution_quote_and_route request with the *)
(* cap and the size drawn, and the outcome of the depth fetch; then the    *)
(* deliverable.                                                            *)
(***************************************************************************)
SlippageCaps == {1, 10, 19, 20, 21, 50, 2000}

SlippageNotionals == {Num(1000), Num(50000), Num(200000)}

InitSlippage ==
  /\ provider = "part_000"
  /\ jobCache = <<>>
  /\ heap = <<>>
  /\ tasks = <<>>
  /\ probe \in {[stage |-> "raw", kind |-> kind,
                  req |-> Put(Put(ValidRequirement(kind), "max_slippage_bps", Num(cap)),
                              "notional_value_usd", n),
                  depth |-> d, deliverable |-> <<>>] :
                   kind \in {"pre_trade_risk_pack", "execution_quote_and_route"},
                   cap \in SlippageCaps, n \in SlippageNotionals,
                   d \in RiskDepthOutcomes}

\* buildDeliverableForJob, the gas resource being unavailable.
Recommends ==
  /\ probe.stage = "raw"
  /\ probe' = [probe EXCEPT !.stage = "built",
       !.deliverable = <<DeliverableForJob(probe.kind, probe.req, HttpThrew,
                                           probe.depth)>>]
  /\ UNCHANGED <<provider, jobCache, heap, tasks>>

NextSlippage == Recommends

SpecSlippage == InitSlippage /\ [][NextSlippage]_vars

\* recommended_max_slippage_bps of a deliverable of either kind.
RecommendedOf(d) ==
  IF d.job_name = "pre_trade_risk_pack"
    THEN d.execution_plan.recommended_max_slippage_bps
    ELSE d.recommended_max_slippage_bps

\* C26: the recommended maximum slippage of a validated pre_trade_risk_pack
\* or execution_quote_and_route deliverable never exceeds the caller's
\* max_slippage_bps and is never below min(max_slippage_bps, 20), whatever
\* the slippage estimate.
C26_RecommendedSlippageCapped ==
  probe.stage = "built" =>
    /\ probe.deliverable[1].validation_passed
    /\ RecommendedOf(probe.deliverable[1]) <= Get(probe.req, "max_slippage_bps").n
    /\ RecommendedOf(probe.deliverable[1])
         >= Min(Get(probe.req, "max_slippage_bps").n, 20)

\* A quote with cap 10 against an estimate of 5000 bps recommends 10.
C26_Witness ==
  /\ probe.stage = "built" /\ probe.kind = "execution_quote_and_route"
  /\ Get(probe.req, "max_slippage_bps") = Num(10)
  /\ probe.deliverable[1].estimated_slippage_bps = 5000
  /\ probe.deliverable[1].recommended_max_slippage_bps = 10

\* Task i is a delivery of a supported job kind whose requirement failed
\* validation: part_000 records the validation, part_001 delivers in the
\* same step.
FailedValidation(i) ==
  /\ IsDelivery(tasks[i]) /\ tasks[i].jobName \in JobsOf(provider)
  /\ IF provider = "part_000"
       THEN tasks[i].validation # <<>> /\ ~tasks[i].validation[1].ok
       ELSE ~tasks[i].delivers[1].validation_passed

\* The errors of the validator that task i ran.
ValidatorErrors(i) ==
  IF provider = "part_000" THEN tasks[i].validation[1].errors
  ELSE validateForJobV1(tasks[i].jobName,
                        ReqProps(tasks[i].requirement, heap)).errors

\* Task i fetched nothing and delivered once, with the validator's errors.
DeliveredUnfetched(i) ==
  /\ tasks[i].pc = "done"
  /\ tasks[i].gasR = <<>> /\ tasks[i].depthR = <<>>
  /\ Len(tasks[i].delivers) = 1
  /\ ~tasks[i].delivers[1].validation_passed
  /\ tasks[i].delivers[1].validation_errors = ValidatorErrors(i)
  /\ ValidatorErrors(i) # <<>>

\* The fixed rejected shape.
RejectedShape(d) ==
  /\ {"decision", "risk_score", "recommended_size_factor_x100", "confidence_level",
      "evidence", "assumptions"} \subseteq DOMAIN d
  /\ d.decision = "REJECT"
  /\ d.risk_score = 0
  /\ d.recommended_size_factor_x100 = 0
  /\ d.confidence_level = "low"
  /\ d.evidence = <<>>
  /\ d.assumptions = <<"No analysis performed due to invalid input.">>

RepeatedDelivery(i, j) ==
  /\ i < j /\ tasks[i].job = tasks[j].job
  /\ IsDelivery(tasks[i]) /\ IsDelivery(tasks[j])
  /\ tasks[i].pc \in {"done", "raised"} /\ tasks[j].pc \in {"done", "raised"}
  /\ \A m \in (i + 1)..(j - 1) :
       ~(IsNegotiation(tasks[m]) /\ tasks[m].job = tasks[i].job)
  /\ OwnGas(i) = OwnGas(j) /\ OwnDepth(i) = OwnDepth(j)

\* Validating the requirement of task i again, as it is now, gives what
\* its validation gave and leaves the requirement as it is.
RevalidatesTheSame(i) ==
  LET props == ReqProps(tasks[i].requirement, heap)
      again == validateForJob(tasks[i].jobName, props)
  IN /\ ~again.raised
     /\ again.ok = tasks[i].validation[1].ok
     /\ again.errors = tasks[i].validation[1].errors
     /\ again.req = props

\* C28: repeated delivery is idempotent.  Validating a requirement that a
\* delivery has normalised gives the same ok flag, the same errors and the
\* same fields; and two deliveries of one job with no negotiation between
\* them and the same resource responses hand job.deliver equal deliverables
\* (the timestamp is not modelled).
C28_RepeatedDeliveryIdempotent ==
  /\ \A i \in TaskIds :
       (provider = "part_000" /\ IsDelivery(tasks[i]) /\ tasks[i].validation # <<>>)
         => RevalidatesTheSame(i)
  /\ \A i \in TaskIds, j \in TaskIds :
       RepeatedDelivery(i, j) => tasks[i].delivers = tasks[j].delivers

\* part_000 delivered twice for a job negotiated once: the first delivery
\* rewrote the stored requirement, and both handed over the same validated
\* deliverable.
C28_Witness ==
  \E k \in TaskIds, i \in TaskIds, j \in TaskIds :
    /\ provider = "part_000" /\ LatestWrite(k, i) /\ RepeatedDelivery(i, j)
    /\ tasks[k].stored[1] # ReqProps(tasks[k].requirement, heap)
    /\ tasks[i].delivers # <<>> /\ tasks[i].delivers[1].validation_passed
    /\ tasks[j].delivers = tasks[i].delivers

\* Task i handed job.deliver a deliverable with validation_passed = true.
DeliveredAnalysis(i) ==
  /\ tasks[i].delivers # <<>>
  /\ tasks[i].delivers[1].validation_passed

\* The requirement negotiation k stored passes the validator of its kind.
StoredPasses(k) ==
  IF provider = "part_000"
    THEN LET val == validateForJob(tasks[k].jobName, tasks[k].stored[1])
         IN ~val.raised /\ val.ok
    ELSE validateForJobV1(tasks[k].jobName, tasks[k].stored[1]).ok

\* C29: a deliverable with validation_passed = true is handed to
\* job.deliver for a job only in a delivery, and only if a negotiation of
\* that job was handled before it and cached a supported job kind with a
\* requirement that passes validation; no delivery of a job that was never
\* negotiated hands over an analysed deliverable.
C29_AnalysisOnlyAfterNegotiation ==
  \A i \in TaskIds :
    /\ DeliveredAnalysis(i) =>
         /\ IsDelivery(tasks[i])
         /\ \E k \in 1..(i - 1) :
              /\ LatestWrite(k, i)
              /\ tasks[k].jobName \in JobsOf(provider)
              /\ tasks[i].delivers[1].job_name = tasks[k].jobName
              /\ StoredPasses(k)
    /\ NeverNegotiated(i) => ~DeliveredAnalysis(i)

\* One job was negotiated and delivered an analysis; a delivery of the
\* other job, never negotiated, got the unsupported-job deliverable.
C29_Witness ==
  \E i \in TaskIds, j \in TaskIds :
    /\ DeliveredAnalysis(i)
    /\ i < j /\ IsDelivery(tasks[j]) /\ NeverNegotiated(j)
    /\ tasks[j].job # tasks[i].job
    /\ tasks[j].delivers # <<>> /\ ~tasks[j].delivers[1].validation_passed

(***************************************************************************)
(* The venue choice of execution_quote_and_route: probe holds a valid      *)
(* request with one of the venue restrictions the validator accepts and    *)
(* one of the answers of the depth resource, whose venues are aerodrome,   *)
(* uniswap_v3, both (deepest first) or none; then the validation and the   *)
(* deliverable.                                                            *)
(***************************************************************************)
QuoteAllowedVenues ==
  {Undef, Arr(<<S("Aerodrome")>>), Arr(<<S("uniswap_v2")>>),
   Arr(<<S("uniswap_v3"), S("aerodrome")>>),
   Arr(<<S("uniswap_v2"), S("uniswap_v3")>>)}

QuoteNotionals == {Num(1000), S("50,000"), Num(200000)}

\* res.json({ok: true, data: {venues, best_by_depth: venues[0] || null}})
DepthAnswer(venues) ==
  HttpOk([venues |-> venues,
          best_by_depth |-> IF venues = <<>> THEN <<>> ELSE <<venues[1]>>])

QuoteDepthOutcomes ==
  DepthOutcomes
    \cup {DepthAnswer(<<Venue("aerodrome", 400000, 12)>>),
          DepthAnswer(<<Venue("uniswap_v3", 900000, 120)>>),
          DepthAnswer(<<Venue("aerodrome", 950000, 8),
                        Venue("uniswap_v3", 900000, 120)>>)}

InitQuote ==
  /\ provider = "part_000"
  /\ jobCache = <<>>
  /\ heap = <<>>
  /\ tasks = <<>>
  /\ probe \in {[stage |-> "raw",
                  req |-> WithOptional(Put(ReqQuote, "notional_value_usd", n),
                                       "allowed_venues", av),
                  validation |-> <<>>, depth |-> d, deliverable |-> <<>>] :
                   av \in QuoteAllowedVenues, n \in QuoteNotionals,
                   d \in QuoteDepthOutcomes}

\* validateExecutionQuoteAndRoute writes the normalised fields to the
\* request.
ValidatesQuote ==
  /\ probe.stage = "raw"
  /\ LET val == validateForJob("execution_quote_and_route", probe.req)
     IN probe' = [probe EXCEPT !.stage = "validated", !.req = val.req,
                               !.validation = <<[ok |-> val.ok, errors |-> val.errors]>>]
  /\ UNCHANGED <<provider, jobCache, heap, tasks>>

\* buildExecutionQuoteAndRouteDeliverable once the depth fetch has settled.
RoutesQuote ==
  /\ probe.stage = "validated"
  /\ LET depthR == fetchBaseVenueDepth(probe.depth)
     IN probe' = [probe EXCEPT !.stage = "built",
          !.deliverable =
            <<buildExecutionQuoteAndRouteDeliverable(probe.req, probe.validation[1],
                                                     depthR.evidence, depthR.data)>>]
  /\ UNCHANGED <<provider, jobCache, heap, tasks>>

NextQuote == ValidatesQuote \/ RoutesQuote

SpecQuote == InitQuote /\ [][NextQuote]_vars

\* The request's normalised allowed_venues.
NormalisedAllowed == Range(Strings(Get(probe.req, "allowed_venues").a))

\* The venues of the depth answer, as the builder sees them.
ReturnedVenues == VenuesOf(fetchBaseVenueDepth(probe.depth).data)

ReturnedBest == BestOf(fetchBaseVenueDepth(probe.depth).data)

AllowedReturned ==
  SelectSeq(ReturnedVenues, LAMBDA v : VenueName(v) \in NormalisedAllowed)

\* C30: in every validated execution_quote_and_route deliverable,
\* best_venue is "unknown" or a member of the request's normalised
\* allowed_venues, whatever venue list the depth resource returns, also
\* when none of the returned venues is allowed but best_by_depth is set.
C30_BestVenueAllowed ==
  (probe.stage = "built" /\ probe.deliverable[1].validation_passed) =>
    \/ probe.deliverable[1].best_venue = "unknown"
    \/ probe.deliverable[1].best_venue \in NormalisedAllowed

\* What the code keeps of C30: best_venue is the deepest allowed venue
\* when the answer has an allowed venue; otherwise it is the answer's
\* best_by_depth, allowed or not, and "unknown" only without one.
C30_BestVenueAllowedOrDeepest ==
  (probe.stage = "built" /\ probe.deliverable[1].validation_passed) =>
    IF AllowedReturned # <<>>
      THEN /\ probe.deliverable[1].best_venue \in NormalisedAllowed
           /\ \E i \in 1..Len(AllowedReturned) :
                /\ VenueName(AllowedReturned[i]) = probe.deliverable[1].best_venue
                /\ \A j \in 1..Len(AllowedReturned) :
                     AllowedReturned[j].depth_usd <= AllowedReturned[i].depth_usd
    ELSE IF ReturnedBest # <<>>
      THEN probe.deliverable[1].best_venue = VenueName(ReturnedBest[1])
    ELSE probe.deliverable[1].best_venue = "unknown"

\* A request restricted to uniswap_v2 got aerodrome, the answer's
\* best_by_depth, as best_venue.
C30_Witness ==
  /\ probe.stage = "built" /\ probe.deliverable[1].validation_passed
  /\ NormalisedAllowed = {"uniswap_v2"}
  /\ AllowedReturned = <<>>
  /\ probe.deliverable[1].best_venue = "aerodrome"
====
